---- MODULE Spec2Model ----
(***************************************************************************)
(* Commit-evaluation dashboard: the aggregation hook (useCommits), the     *)
(* detail views that derive per-type statistics from it, the agent-hash    *)
(* anomaly classifier and the commit ingestion endpoint.                   *)
(*                                                                         *)
(* Numbers are exact: work_hours is held in tenths of an hour (HoursScale) *)
(* and every quotient the code computes (averages, productivity) is kept   *)
(* as a reduced fraction <<numerator, denominator>>.  The rounding of      *)
(* IEEE doubles is not modelled.                                           *)
(***************************************************************************)
EXTENDS Integers, Sequences, FiniteSets, TLC

VARIABLES
    commits,        \* useCommits: commits state (rows of the last fetch)
    developers,     \* useCommits: developers state
    teams,          \* useCommits: teams state
    developerStats, \* useCommits: developerStats memo
    teamStats,      \* useCommits: teamStats memo
    stage,          \* "fetched": state set, memos stale; "rendered": memos computed;
                    \* "unmounted": no dashboard is open
    db,             \* the tables teams, developers, developer_teams and commits
    requests,       \* the ingestion requests: input, position in the handler, response
    fetch,          \* useCommits: loading, error, developerTeams and dateRange state,
                    \* and the fetchData calls made so far
    table,          \* DeveloperStats: sortKey and sortDirection state
    picker          \* DateFilter: the getWeeksOfMonth call, its locals and its result

vars ==
    <<commits, developers, teams, developerStats, teamStats, stage, db, requests, fetch,
      table, picker>>

----------------------------------------------------------------------------
(* Values *)

\* SQL NULL / JS null or undefined in a text or id column
NULL == "NULL"
\* SQL NULL / JS null in a numeric column
NullNum == -1
\* work_hours DECIMAL is held in tenths of an hour
HoursScale == 10

\* JS: x || 0 on a number | null
OrZero(x) == IF x = NullNum THEN 0 ELSE x

\* JS truthiness of a string | null | undefined
Truthy(s) == s /= NULL /\ s /= ""

RECURSIVE GCD(_, _)
GCD(a, b) == IF b = 0 THEN a ELSE GCD(b, a % b)

\* JS number division n / d for n, d >= 0, exact: a reduced fraction, or
\* NaN for 0 / 0 and Infinity for n / 0
NaN == <<0, 0>>
Infinity == <<1, 0>>
Ratio(n, d) ==
    IF d = 0 THEN (IF n = 0 THEN NaN ELSE Infinity)
    ELSE LET g == GCD(n, d) IN <<n \div g, d \div g>>
Zero == Ratio(0, 1)

RECURSIVE Sum(_)
\* Array.prototype.reduce((sum, x) => sum + x, 0)
Sum(s) == IF s = <<>> THEN 0 ELSE Sum(SubSeq(s, 1, Len(s) - 1)) + s[Len(s)]

\* Array.prototype.map
Map(s, F(_)) == [i \in 1..Len(s) |-> F(s[i])]

\* Array.prototype.filter
Filter(s, P(_)) == SelectSeq(s, P)

----------------------------------------------------------------------------
(* Dimension rows and the shape of a commit row *)

TeamIds == {"t1", "t2"}
DeveloperIds == {"d1", "d2"}

TeamRow(id, name) == [id |-> id, name |-> name]
DeveloperRow(id, name, email, team_id) ==
    [id |-> id, name |-> name, email |-> email, team_id |-> team_id]

\* a develop commit carrying nothing; the input domains vary its fields.
\* No aggregation reads commit_id: the rows of a list stand apart by position.
BaseCommit ==
    [ commit_id             |-> "c",
      message               |-> <<"w", "i", "p">>,
      developer_id          |-> "d1",
      team_id               |-> "t1",
      type                  |-> "develop",
      evaluation_total      |-> NullNum,
      evaluation_complexity |-> NullNum,
      evaluation_volume     |-> NullNum,
      evaluation_thinking   |-> NullNum,
      evaluation_others     |-> NullNum,
      comment               |-> NULL,
      lines_added           |-> 0,
      lines_deleted         |-> 0,
      work_hours            |-> NullNum,
      ai_driven_minutes     |-> NullNum,
      productivity          |-> NullNum,
      agent_hash            |-> NULL,
      created_at            |-> 0,
      created_at_ms         |-> 0 ]

\* a was created at the instant of b or later: created_at holds the whole
\* hours of the timestamp, created_at_ms the milliseconds within the hour
atOrAfter(a, b) ==
    \/ a.created_at > b.created_at
    \/ a.created_at = b.created_at /\ a.created_at_ms >= b.created_at_ms

\* the develop partition: type develop, or null
IsDevelop(c) == c.type = "develop" \/ c.type = NULL

----------------------------------------------------------------------------
(* useCommits: computeDevStats *)

\* mean of a field over the list, 0 when the list is empty
MeanOf(cs, F(_)) ==
    IF Len(cs) > 0 THEN Ratio(Sum(Map(cs, F)), Len(cs)) ELSE Zero

commitsByType(devCommits) ==
    [ develop |-> Len(Filter(devCommits, LAMBDA c : c.type = "develop" \/ c.type = NULL)),
      meeting |-> Len(Filter(devCommits, LAMBDA c : c.type = "meeting")),
      chore   |-> Len(Filter(devCommits, LAMBDA c : c.type = "chore")) ]

workHoursByType(devCommits) ==
    [ develop |-> Sum(Map(Filter(devCommits, LAMBDA c : c.type = "develop" \/ c.type = NULL),
                          LAMBDA c : OrZero(c.work_hours))),
      meeting |-> Sum(Map(Filter(devCommits, LAMBDA c : c.type = "meeting"),
                          LAMBDA c : OrZero(c.work_hours))),
      chore   |-> Sum(Map(Filter(devCommits, LAMBDA c : c.type = "chore"),
                          LAMBDA c : OrZero(c.work_hours))) ]

computeDevStats(developer, devCommits) ==
    [ developer            |-> developer,
      totalCommits         |-> Len(devCommits),
      avgEvaluation        |-> MeanOf(devCommits, LAMBDA c : OrZero(c.evaluation_total)),
      totalWorkHours       |-> Sum(Map(devCommits, LAMBDA c : OrZero(c.work_hours))),
      totalAiDrivenMinutes |-> Sum(Map(devCommits, LAMBDA c : OrZero(c.ai_driven_minutes))),
      totalLinesAdded      |-> Sum(Map(devCommits, LAMBDA c : OrZero(c.lines_added))),
      totalLinesDeleted    |-> Sum(Map(devCommits, LAMBDA c : OrZero(c.lines_deleted))),
      avgProductivity      |-> MeanOf(devCommits, LAMBDA c : OrZero(c.productivity)),
      evaluationBreakdown  |->
          [ complexity |-> MeanOf(devCommits, LAMBDA c : OrZero(c.evaluation_complexity)),
            volume     |-> MeanOf(devCommits, LAMBDA c : OrZero(c.evaluation_volume)),
            thinking   |-> MeanOf(devCommits, LAMBDA c : OrZero(c.evaluation_thinking)),
            others     |-> MeanOf(devCommits, LAMBDA c : OrZero(c.evaluation_others)) ],
      commitsByType        |-> commitsByType(devCommits),
      workHoursByType      |-> workHoursByType(devCommits) ]

----------------------------------------------------------------------------
(* useCommits: the developerStats and teamStats memos *)

RECURSIVE DistinctInOrder(_)
\* the keys of a JS Map filled in one pass over s: first occurrences, in order
DistinctInOrder(s) ==
    IF s = <<>> THEN <<>>
    ELSE LET r == DistinctInOrder(SubSeq(s, 1, Len(s) - 1))
             x == s[Len(s)]
         IN  IF \E i \in 1..Len(r) : r[i] = x THEN r ELSE Append(r, x)

RECURSIVE Flatten(_)
\* concatenation of a sequence of sequences
Flatten(ss) == IF ss = <<>> THEN <<>> ELSE Flatten(SubSeq(ss, 1, Len(ss) - 1)) \o ss[Len(ss)]

\* developers.map(developer => computeDevStats(developer, commits of developer))
developerStatsMemo(cs, devs) ==
    Map(devs, LAMBDA developer :
        computeDevStats(developer, Filter(cs, LAMBDA c : c.developer_id = developer.id)))

\* the commits of one team: grouped by team_id on the commit itself
teamCommitsOf(cs, teamId) == Filter(cs, LAMBDA c : c.team_id = teamId)

\* teamDevsOf whose devCommitsMap keeps only the last commit of each developer
teamDevsOf_lastOnly(teamCommits, devs) ==
    LET withDev == Filter(teamCommits, LAMBDA c : Truthy(c.developer_id))
        devIds  == DistinctInOrder(Map(withDev, LAMBDA c : c.developer_id))
    IN  Flatten(Map(devIds, LAMBDA devId :
            LET found == Filter(devs, LAMBDA d : d.id = devId)
                mine  == Filter(withDev, LAMBDA c : c.developer_id = devId)
            IN  IF found = <<>> THEN <<>>
                ELSE << computeDevStats(found[1], << mine[Len(mine)] >>) >>))

\* devCommitsMap, then teamDevs: one entry per developer_id found among the
\* team's commits (in order of first occurrence), skipping unknown developers
teamDevsOf(teamCommits, devs) ==
    LET withDev == Filter(teamCommits, LAMBDA c : Truthy(c.developer_id))
        devIds  == DistinctInOrder(Map(withDev, LAMBDA c : c.developer_id))
    IN  Flatten(Map(devIds, LAMBDA devId :
            LET found == Filter(devs, LAMBDA d : d.id = devId)
            IN  IF found = <<>> THEN <<>>
                ELSE << computeDevStats(found[1],
                            Filter(withDev, LAMBDA c : c.developer_id = devId)) >>))

teamStatsOf(team, cs, devs) ==
    LET teamCommits == teamCommitsOf(cs, team.id)
    IN  [ team                 |-> team,
          developers           |-> teamDevsOf(teamCommits, devs),
          totalCommits         |-> Len(teamCommits),
          avgEvaluation        |-> MeanOf(teamCommits, LAMBDA c : OrZero(c.evaluation_total)),
          totalWorkHours       |-> Sum(Map(teamCommits, LAMBDA c : OrZero(c.work_hours))),
          totalAiDrivenMinutes |-> Sum(Map(teamCommits, LAMBDA c : OrZero(c.ai_driven_minutes))) ]

teamStatsMemo(cs, devs, tms) == Map(tms, LAMBDA team : teamStatsOf(team, cs, devs))

\* Fields the views read from DeveloperStats and TeamStats that the hook in
\* src/ does not compute: the develop partition's AI minutes and mean score.
aiDrivenMinutesByType(cs) ==
    [ develop |-> Sum(Map(Filter(cs, IsDevelop), LAMBDA c : OrZero(c.ai_driven_minutes))) ]

avgEvaluationDevelop(cs) == MeanOf(Filter(cs, IsDevelop), LAMBDA c : OrZero(c.evaluation_total))

----------------------------------------------------------------------------
(* The productivity ratio and text helpers shared by the views *)

\* devWorkHours > 0 && devAiMinutes > 0 ? ((devWorkHours * 60) / devAiMinutes) * 100 : 0
\* (devWorkHours in tenths of an hour)
productivity(devWorkHours, devAiMinutes) ==
    IF devWorkHours > 0 /\ devAiMinutes > 0
    THEN Ratio(devWorkHours * 60 * 100, devAiMinutes * HoursScale)
    ELSE Zero

Uppers == <<"A","B","C","D","E","F","G","H","I","J","K","L","M",
            "N","O","P","Q","R","S","T","U","V","W","X","Y","Z">>
Lowers == <<"a","b","c","d","e","f","g","h","i","j","k","l","m",
            "n","o","p","q","r","s","t","u","v","w","x","y","z">>

\* String.prototype.toLowerCase on a string held as a sequence of characters
toLowerCase(s) ==
    [i \in 1..Len(s) |->
        IF \E k \in 1..Len(Uppers) : Uppers[k] = s[i]
        THEN Lowers[CHOOSE k \in 1..Len(Uppers) : Uppers[k] = s[i]]
        ELSE s[i]]

\* String.prototype.startsWith
startsWith(s, p) == Len(s) >= Len(p) /\ SubSeq(s, 1, Len(p)) = p

prefixTypes ==
    << <<"f","e","a","t">>, <<"f","i","x">>, <<"c","h","o","r","e">>,
       <<"r","e","f","a","c","t","o","r">>, <<"d","o","c","s">> >>

\* hasPrefix matching the message as written, without toLowerCase
hasPrefix_caseSensitive(c, prefix) ==
    \/ startsWith(c.message, prefix \o <<"(">>)
    \/ startsWith(c.message, prefix \o <<":">>)

\* message.toLowerCase().startsWith(`${prefix}(`) || ...startsWith(`${prefix}:`)
hasPrefix(c, prefix) ==
    \/ startsWith(toLowerCase(c.message), prefix \o <<"(">>)
    \/ startsWith(toLowerCase(c.message), prefix \o <<":">>)

\* one {prefix, count} entry per prefix type
prefixCountsOf(developCommits) ==
    Map(prefixTypes, LAMBDA prefix :
        [ prefix |-> prefix,
          count  |-> Len(Filter(developCommits, LAMBDA c : hasPrefix(c, prefix))) ])

\* created_at is in hours since an epoch midnight (UTC); the views read the
\* browser-local calendar date of it
TzOffsetHours == 9
localDate(created_at) == (created_at + TzOffsetHours) \div 24

\* dayCountOf reading the UTC date of created_at instead of the local one
dayCountOf_utc(cs) ==
    LET dates == {cs[i].created_at \div 24 : i \in 1..Len(cs)}
    IN  IF Cardinality(dates) = 0 THEN 1 ELSE Cardinality(dates)

\* dates.size || 1
dayCountOf(cs) ==
    LET dates == {localDate(cs[i].created_at) : i \in 1..Len(cs)}
    IN  IF Cardinality(dates) = 0 THEN 1 ELSE Cardinality(dates)

----------------------------------------------------------------------------
(* DeveloperDetail *)

RECURSIVE sortByCreatedAtDesc(_)
\* Array.prototype.sort((a, b) => b.created_at - a.created_at): stable
sortByCreatedAtDesc(cs) ==
    IF cs = <<>> THEN <<>>
    ELSE LET r == sortByCreatedAtDesc(SubSeq(cs, 1, Len(cs) - 1))
             x == cs[Len(cs)]
             k == Cardinality({i \in 1..Len(r) : atOrAfter(r[i], x)})
         IN  SubSeq(r, 1, k) \o <<x>> \o SubSeq(r, k + 1, Len(r))

developerCommitsOf(cs, developerId) ==
    sortByCreatedAtDesc(Filter(cs, LAMBDA c : c.developer_id = developerId))

\* typeStats: the commits of one type
typeCommitsOf(developerCommits, type) ==
    Filter(developerCommits, LAMBDA c :
        IF type = "develop" THEN c.type = "develop" \/ c.type = NULL
        ELSE c.type = type)

\* typeStatOf with the count > 0 guards of the two averages left out
typeStatOf_unguarded(developerCommits, type) ==
    LET typeCommits == typeCommitsOf(developerCommits, type)
        count       == Len(typeCommits)
    IN  [ type            |-> type,
          count           |-> count,
          avgScore        |-> Ratio(Sum(Map(typeCommits,
                                  LAMBDA c : OrZero(c.evaluation_total))), count),
          totalWorkHours  |-> Sum(Map(typeCommits, LAMBDA c : OrZero(c.work_hours))),
          totalAiMinutes  |-> Sum(Map(typeCommits, LAMBDA c : OrZero(c.ai_driven_minutes))),
          avgProductivity |-> Ratio(Sum(Map(typeCommits,
                                  LAMBDA c : OrZero(c.productivity))), count) ]

\* typeStats: one entry (its prefixCounts is typePrefixCounts)
typeStatOf(developerCommits, type) ==
    LET typeCommits == typeCommitsOf(developerCommits, type)
        count       == Len(typeCommits)
    IN  [ type            |-> type,
          count           |-> count,
          avgScore        |-> IF count > 0
                              THEN Ratio(Sum(Map(typeCommits,
                                        LAMBDA c : OrZero(c.evaluation_total))), count)
                              ELSE Zero,
          totalWorkHours  |-> Sum(Map(typeCommits, LAMBDA c : OrZero(c.work_hours))),
          totalAiMinutes  |-> Sum(Map(typeCommits, LAMBDA c : OrZero(c.ai_driven_minutes))),
          avgProductivity |-> IF count > 0
                              THEN Ratio(Sum(Map(typeCommits,
                                        LAMBDA c : OrZero(c.productivity))), count)
                              ELSE Zero ]

\* typeStats: prefixCounts of the develop entry
typePrefixCounts(developerCommits) ==
    prefixCountsOf(typeCommitsOf(developerCommits, "develop"))

\* devType, the develop entry of typeStats for the developer page
devType(cs, developerId) == typeStatOf(developerCommitsOf(cs, developerId), "develop")

\* the page is the "Developer not found" page unless developerStats has the id
developerFound(stats, developerId) ==
    Filter(stats, LAMBDA ds : ds.developer.id = developerId) /= <<>>

\* developerProductivity as the mean of the commits' stored productivity
developerProductivity_perCommit(cs, developerId) ==
    typeStatOf(developerCommitsOf(cs, developerId), "develop").avgProductivity

\* the Avg Productivity card of the developer page
developerProductivity(cs, developerId) ==
    LET dt == devType(cs, developerId)
    IN  productivity(dt.totalWorkHours, dt.totalAiMinutes)

\* dayCount of the developer page
developerDayCount(cs, developerId) == dayCountOf(developerCommitsOf(cs, developerId))

----------------------------------------------------------------------------
(* TeamDetail *)

\* team.aiDrivenMinutesByType: the develop AI minutes of the team's commits
teamAiDrivenMinutesByType(cs, teamId) == aiDrivenMinutesByType(teamCommitsOf(cs, teamId))

\* team.developers of the TeamStats entry the page is about (none: "Team not found")
teamMembers(tStats, teamId) ==
    LET team == Filter(tStats, LAMBDA ts : ts.team.id = teamId)
    IN  IF team = <<>> THEN <<>> ELSE team[1].developers

teamTypeStats(tStats, teamId) ==
    LET members == teamMembers(tStats, teamId)
    IN  [ develop |-> Sum(Map(members, LAMBDA d : d.commitsByType.develop)),
          meeting |-> Sum(Map(members, LAMBDA d : d.commitsByType.meeting)),
          chore   |-> Sum(Map(members, LAMBDA d : d.commitsByType.chore)) ]

teamWorkHoursByType(tStats, teamId) ==
    LET members == teamMembers(tStats, teamId)
    IN  [ develop |-> Sum(Map(members, LAMBDA d : d.workHoursByType.develop)),
          meeting |-> Sum(Map(members, LAMBDA d : d.workHoursByType.meeting)),
          chore   |-> Sum(Map(members, LAMBDA d : d.workHoursByType.chore)) ]

\* the Avg Productivity card of the team page
teamProductivity(tStats, cs, teamId) ==
    productivity(teamWorkHoursByType(tStats, teamId).develop,
                 teamAiDrivenMinutesByType(cs, teamId).develop)

\* the commits counted by the team page's prefixCounts
teamDevelopCommits(cs, teamId) ==
    Filter(cs, LAMBDA c : c.team_id = teamId /\ (c.type = "develop" \/ c.type = NULL))

teamPrefixCounts(cs, teamId) == prefixCountsOf(teamDevelopCommits(cs, teamId))

\* dayCount of the team page
teamDayCount(cs, teamId) == dayCountOf(Filter(cs, LAMBDA c : c.team_id = teamId))

----------------------------------------------------------------------------
(* DeveloperStats: the roll-up over all developers *)

\* s.aiDrivenMinutesByType of one DeveloperStats entry
statsAiDrivenMinutesByType(cs, s) ==
    aiDrivenMinutesByType(Filter(cs, LAMBDA c : c.developer_id = s.developer.id))

\* avgProductivity of the Developer Statistics page
avgProductivity(stats, cs) ==
    productivity(Sum(Map(stats, LAMBDA s : s.workHoursByType.develop)),
                 Sum(Map(stats, LAMBDA s : statsAiDrivenMinutesByType(cs, s).develop)))

\* devTeamStatsMap.get(devId): the developer's entries embedded in each TeamStats
devTeamStatsMap(tStats, devId) ==
    Flatten(Map(tStats, LAMBDA ts :
        Map(Filter(ts.developers, LAMBDA devStat : devStat.developer.id = devId),
            LAMBDA devStat : [team |-> ts.team, stats |-> devStat])))

----------------------------------------------------------------------------
(* Ingestion endpoint: the value stored in commits.type *)

\* type: data.type || 'develop'
storedType(dataType) == IF Truthy(dataType) THEN dataType ELSE "develop"

\* the type field of a request body: absent, empty, or any string
RequestTypes == {NULL, "", "develop", "meeting", "chore", "review"}

\* commits.type is TEXT with no CHECK: what ingestion stored, or NULL
StoredTypes == {storedType(t) : t \in RequestTypes} \cup {NULL}

----------------------------------------------------------------------------
(* Ingestion endpoint: tables, requests and the steps of the handler *)

\* number of ingestion requests
MaxRequests == 2
Requests == 1..MaxRequests

\* uuid defaults: the next unused id of each table
TeamIdPool == << "t1", "t2", "t3" >>
DeveloperIdPool == << "d1", "d2", "d3", "d4", "d5" >>

EmptyDb == [teams |-> {}, developers |-> {}, developer_teams |-> {}, commits |-> {}]

\* Deno.env.get("API_KEY")
expectedApiKey == "good"
\* the x-api-key header: absent, wrong, right
ApiKeys == {NULL, "bad", expectedApiKey}

\* a request body; json is FALSE for a body req.json() cannot parse and
\* evaluation is FALSE for a body without the evaluation object. The members
\* of data.evaluation and the optional fields are absent (NullNum, NULL) unless
\* a body sets them.
Body(commit_id, message, developer_name, developer_email, team_name, type, evaluation) ==
    [ json |-> TRUE, commit_id |-> commit_id, message |-> message,
      developer_name |-> developer_name, developer_email |-> developer_email,
      team_name |-> team_name, type |-> type, evaluation |-> evaluation,
      evaluation_total |-> NullNum, evaluation_complexity |-> NullNum,
      evaluation_volume |-> NullNum, evaluation_thinking |-> NullNum,
      evaluation_others |-> NullNum, comment |-> NULL,
      lines_added |-> NullNum, lines_deleted |-> NullNum,
      work_hours |-> NullNum, ai_driven_minutes |-> NullNum, productivity |-> NullNum ]

\* b as a meeting of an hour and a half with every field filled in
filled(b) ==
    [b EXCEPT
        !.type = "meeting",
        !.evaluation_total = 7, !.evaluation_complexity = 3, !.evaluation_volume = 2,
        !.evaluation_thinking = 1, !.evaluation_others = 1, !.comment = "ok",
        !.lines_added = 5, !.lines_deleted = 2,
        !.work_hours = 15, !.ai_driven_minutes = 30, !.productivity = 300]

\* b as a commit that scored nothing and took no time: every number 0, an
\* empty comment
zeroed(b) ==
    [b EXCEPT
        !.evaluation_total = 0, !.evaluation_complexity = 0, !.evaluation_volume = 0,
        !.evaluation_thinking = 0, !.evaluation_others = 0, !.comment = "",
        !.lines_added = 0, !.lines_deleted = 0,
        !.work_hours = 0, !.ai_driven_minutes = 0, !.productivity = 0]

\* what the clients of the two teams send: team B's send no optional field,
\* team A's send them all
withValues(b) ==
    IF b.team_name /= "A" THEN b
    ELSE IF b.commit_id = "c1" THEN filled(b) ELSE zeroed(b)

NoBody == [Body(NULL, NULL, NULL, NULL, NULL, NULL, FALSE) EXCEPT !.json = FALSE]

\* bodies with every required field
ValidBodies ==
    { withValues(Body(c, "m", IF c = "c2" /\ e = "a@x" THEN "al" ELSE "alice", e, t, NULL, TRUE)) :
        c \in {"c1", "c2"}, e \in {NULL, "a@x"}, t \in {"A", "B"} }
    \cup { Body("c1", "m", "alice", NULL, "A", "review", FALSE) }

\* bodies with one required field absent or empty
LackingBodies ==
    LET base == Body("c1", "m", "alice", NULL, "A", NULL, TRUE)
    IN  UNION { { [base EXCEPT !.commit_id = x], [base EXCEPT !.message = x],
                  [base EXCEPT !.developer_name = x], [base EXCEPT !.team_name = x] }
                : x \in {NULL, ""} }

\* what a client may send
Inputs ==
    { <<k, b>> : k \in {expectedApiKey}, b \in ValidBodies \cup LackingBodies \cup {NoBody} }
    \cup { <<k, b>> : k \in {NULL, "bad"},
                      b \in { Body("c1", "m", "alice", NULL, "A", NULL, TRUE),
                              Body(NULL, "m", "alice", NULL, "A", NULL, TRUE) } }

NoResponse == [status |-> 0, success |-> FALSE, error |-> NULL]
Response(status, success, error) == [status |-> status, success |-> success, error |-> error]

Idle == [ pc |-> "idle", method |-> NULL, apiKey |-> NULL, data |-> NoBody,
          teamId |-> NULL, developerId |-> NULL, response |-> NoResponse ]

\* the handler returns (or its catch block does): the request is over
Respond(r, status, success, error) ==
    requests' = [requests EXCEPT ![r].pc = "done",
                                 ![r].response = Response(status, success, error)]

\* a field of the body is missing for the validation: !data.field
lacksRequired(data) ==
    \/ ~Truthy(data.commit_id) \/ ~Truthy(data.message)
    \/ ~Truthy(data.developer_name) \/ ~Truthy(data.team_name)

\* the early returns of the handler with the body validated before the key
rejection_bodyFirst(apiKey, data) ==
    IF data.json /\ lacksRequired(data) THEN Response(400, FALSE, "Missing required fields")
    ELSE IF ~Truthy(apiKey) \/ apiKey /= expectedApiKey
    THEN Response(401, FALSE, "Invalid API key")
    ELSE IF ~data.json THEN Response(500, FALSE, "Unexpected token")
    ELSE NoResponse

\* the early returns of the handler, in its order: key, body parse, required
\* fields; NoResponse when the request passes all three
rejection(apiKey, data) ==
    IF ~Truthy(apiKey) \/ apiKey /= expectedApiKey
    THEN Response(401, FALSE, "Invalid API key")
    ELSE IF ~data.json THEN Response(500, FALSE, "Unexpected token")
    ELSE IF lacksRequired(data) THEN Response(400, FALSE, "Missing required fields")
    ELSE NoResponse

----------------------------------------------------------------------------
(* The hook after a fetch has settled, and the render that follows *)

\* longest commit list of an aggregation input
MaxCommits == 3

\* a date input left empty
NoDate == NullNum

\* a date range; dates are local calendar days counted as localDate counts them
DateRange(startDate, endDate) == [startDate |-> startDate, endDate |-> endDate]

\* useState initializer of dateRange: the first of the month to today, on a
\* first of the month
InitialRange == DateRange(1, 1)

\* one fetchData call: where it is, the range its closure holds and its
\* queries that returned an error
Call(pc, range, failed) == [pc |-> pc, range |-> range, failed |-> failed]

\* the hook's own state before its first fetchData: useState(true) for loading,
\* null for error, [] for developerTeams; calls lists the fetchData calls made
Mounted ==
    [ loading |-> TRUE, error |-> NULL, developerTeams |-> <<>>,
      dateRange |-> InitialRange, calls |-> <<>> ]

SeqsUpTo(S, n) == UNION {[1..k -> S] : k \in 0..n}

HookTeams == << TeamRow("t1", "A"), TeamRow("t2", "B") >>
HookDevelopers ==
    << DeveloperRow("d1", "alice", "a@x", "t1"), DeveloperRow("d2", "bob", NULL, "t2") >>

\* DateFilter: getWeeksOfMonth has not been called
NotCalled ==
    [ pc |-> "notCalled", year |-> 0, month |-> 0, currentDate |-> 0, weekNumber |-> 0,
      weeks |-> <<>> ]

\* DeveloperStats: useState(null) for sortKey and sortDirection
Unsorted == [sortKey |-> NULL, sortDirection |-> NULL]

\* setCommits / setDevelopers / setTeams have run; the memos are not yet recomputed.
\* The tables are not read again before the next fetch and no request is in flight.
Fetched(lists) ==
    /\ commits \in lists
    /\ developers = HookDevelopers
    /\ teams = HookTeams
    /\ developerStats = <<>>
    /\ teamStats = <<>>
    /\ stage = "fetched"
    /\ db = EmptyDb
    /\ requests = [r \in Requests |-> Idle]
    /\ fetch = [Mounted EXCEPT !.loading = FALSE,
                                !.calls = << Call("settled", InitialRange, {}) >>]
    /\ table = Unsorted
    /\ picker = NotCalled

\* the render after the state change: both memos recompute
Render ==
    /\ stage = "fetched"
    /\ developerStats' = developerStatsMemo(commits, developers)
    /\ teamStats' = teamStatsMemo(commits, developers, teams)
    /\ stage' = "rendered"
    /\ UNCHANGED <<commits, developers, teams, db, requests, fetch, table, picker>>

NextRender == Render

----------------------------------------------------------------------------
(* Inputs that vary the commit type *)

TypeCommits ==
    {[BaseCommit EXCEPT !.developer_id = d, !.type = t] :
        d \in DeveloperIds, t \in StoredTypes}

InitTypes == Fetched(SeqsUpTo(TypeCommits, MaxCommits))
SpecTypes == InitTypes /\ [][NextRender]_vars

\* C1: for every commit list given to computeDevStats, the three per-type
\* counts add up to totalCommits, for every type value ingestion can store.
C1_TypeCountsSumToTotal ==
    stage = "rendered" =>
        \A i \in 1..Len(developerStats) :
            LET s == developerStats[i]
            IN  s.commitsByType.develop + s.commitsByType.meeting + s.commitsByType.chore
                    = s.totalCommits

----------------------------------------------------------------------------
(* Inputs that vary the hours and AI minutes of develop and other commits *)

\* longest commit list of a productivity input
MaxProdCommits == 2

\* work_hours (tenths of an hour) and ai_driven_minutes of an input commit
HourValues == {NullNum, 1, 2}
MinuteValues == {NullNum, 1}

\* who commits what: d1 develops (typed or untyped) and meets, d2 develops
ProdKinds == { <<"d1", "develop">>, <<"d1", NULL>>, <<"d1", "meeting">>, <<"d2", "develop">> }

\* the developer d1 commits as team t1, d2 as team t2; every commit carries a
\* score and a stored per-commit productivity
ProdCommits ==
    {[BaseCommit EXCEPT !.developer_id = k[1],
                        !.team_id = IF k[1] = "d1" THEN "t1" ELSE "t2",
                        !.type = k[2],
                        !.work_hours = w,
                        !.ai_driven_minutes = a,
                        !.evaluation_total = 7,
                        !.productivity = 150] :
        k \in ProdKinds, w \in HourValues, a \in MinuteValues}

InitProd == Fetched(SeqsUpTo(ProdCommits, MaxProdCommits))
SpecProd == InitProd /\ [][NextRender]_vars

\* every productivity figure the dashboard shows for the commit list cs
shownProductivity(cs, devs, tms) ==
    LET stats  == developerStatsMemo(cs, devs)
        tStats == teamStatsMemo(cs, devs, tms)
    IN  [ developer |-> [d \in DeveloperIds |-> developerProductivity(cs, d)],
          team      |-> [t \in TeamIds |-> teamProductivity(tStats, cs, t)],
          all       |-> avgProductivity(stats, cs) ]

\* the same figures read from the hook's state
shownNow ==
    [ developer |-> [d \in DeveloperIds |-> developerProductivity(commits, d)],
      team      |-> [t \in TeamIds |-> teamProductivity(teamStats, commits, t)],
      all       |-> avgProductivity(developerStats, commits) ]

Orderings(n) == {p \in [1..n -> 1..n] : \A i, j \in 1..n : p[i] = p[j] => i = j}
Permuted(cs, p) == [i \in 1..Len(cs) |-> cs[p[i]]]

\* cs with the commit at i replaced by two commits carrying w1 and a1, and the rest
SplitAt(cs, i, w1, a1) ==
    LET c  == cs[i]
        c1 == [c EXCEPT !.work_hours = w1, !.ai_driven_minutes = a1]
        c2 == [c EXCEPT !.work_hours = OrZero(c.work_hours) - w1,
                        !.ai_driven_minutes = OrZero(c.ai_driven_minutes) - a1]
    IN  SubSeq(cs, 1, i - 1) \o <<c1, c2>> \o SubSeq(cs, i + 1, Len(cs))

\* sum of a field over the commits of cs that satisfy P, taken as a bag
RECURSIVE BagSum(_, _)
BagSum(cs, idx) ==
    IF idx = {} THEN 0
    ELSE LET i == CHOOSE k \in idx : TRUE IN cs[i] + BagSum(cs, idx \ {i})

developHours(cs, P(_)) ==
    BagSum([i \in 1..Len(cs) |-> OrZero(cs[i].work_hours)],
           {i \in 1..Len(cs) : IsDevelop(cs[i]) /\ P(cs[i])})
developMinutes(cs, P(_)) ==
    BagSum([i \in 1..Len(cs) |-> OrZero(cs[i].ai_driven_minutes)],
           {i \in 1..Len(cs) : IsDevelop(cs[i]) /\ P(cs[i])})

\* (sum of hours * 60 / sum of minutes) * 100 when both are positive, else 0
ratioOfSums(h, m) == IF h > 0 /\ m > 0 THEN Ratio(h * 6000, m * HoursScale) ELSE Zero

noDevelopCommit(cs, d) ==
    \A i \in 1..Len(cs) : cs[i].developer_id = d => ~IsDevelop(cs[i])

\* C3: for every developer whose commits hold no develop-type commit, the
\* developer page shows a develop average score of exactly 0 and a
\* productivity of exactly 0 (never NaN or Infinity), and it is the
\* developer's page, not an error page.
C3_NoDevelopGivesZero ==
    stage = "rendered" =>
        \A d \in DeveloperIds :
            noDevelopCommit(commits, d) =>
                /\ developerFound(developerStats, d)
                /\ devType(commits, d).count = 0
                /\ devType(commits, d).avgScore = Zero
                /\ developerProductivity(commits, d) = Zero

\* rendered: d1 has only meeting commits, with hours, AI minutes and scores
\* on them, and d2 has no commit at all
C3_Witness ==
    /\ stage = "rendered"
    /\ Len(commits) = 2
    /\ \A i \in 1..2 :
          /\ commits[i].developer_id = "d1"
          /\ commits[i].type = "meeting"
          /\ commits[i].work_hours = 2
          /\ commits[i].ai_driven_minutes = 1
          /\ commits[i].evaluation_total = 7
    /\ noDevelopCommit(commits, "d1") /\ noDevelopCommit(commits, "d2")
    /\ developerStats[1].totalCommits = 2
    /\ developerStats[2].totalCommits = 0
    /\ developerProductivity(commits, "d1") = Zero

----------------------------------------------------------------------------
(* Team partition: commits of several developers filed under several teams *)

\* longest commit list of a team-partition input
MaxTeamCommits == 2

\* type, message, creation hour and size of a commit, varied together
TeamVariants ==
    { [type |-> "develop", message |-> <<"F","i","x","(","a",")">>, created_at |-> 0,  w |-> 1],
      [type |-> NULL,      message |-> <<"w","i","p">>,             created_at |-> 20, w |-> 2],
      [type |-> "meeting", message |-> <<"f","i","x",":","m">>,     created_at |-> 0,  w |-> 2] }

\* developer_id and team_id are nullable (ON DELETE SET NULL); a commit may be
\* filed under a team other than its developer's home team
TeamCommits ==
    { [BaseCommit EXCEPT !.developer_id = d, !.team_id = t,
                         !.type = v.type, !.message = v.message,
                         !.created_at = v.created_at,
                         !.work_hours = v.w, !.ai_driven_minutes = 3 * v.w,
                         !.lines_added = 5 * v.w, !.lines_deleted = 7 * v.w + 1]
        : d \in DeveloperIds \cup {NULL}, t \in TeamIds \cup {NULL}, v \in TeamVariants }

InitTeams == Fetched(SeqsUpTo(TeamCommits, MaxTeamCommits))
SpecTeams == InitTeams /\ [][NextRender]_vars

\* the additive fields of a DeveloperStats object, as a tuple
additiveFields(s) ==
    << s.totalCommits,
       s.commitsByType.develop, s.commitsByType.meeting, s.commitsByType.chore,
       s.workHoursByType.develop, s.workHoursByType.meeting, s.workHoursByType.chore,
       s.totalWorkHours, s.totalAiDrivenMinutes, s.totalLinesAdded, s.totalLinesDeleted >>

\* field-wise sum of the additive fields over a list of {team, stats} entries
summedOverTeams(entries) ==
    [k \in 1..11 |-> Sum(Map(entries, LAMBDA e : additiveFields(e.stats)[k]))]

\* every commit of developer d carries a team_id
allFiled(cs, d) == \A i \in 1..Len(cs) : cs[i].developer_id = d => cs[i].team_id /= NULL

\* C4: for every developer D whose commits all carry a team_id, the entries
\* for D embedded in the TeamStats of all teams, summed field by field, equal
\* D's global DeveloperStats on totalCommits, commitsByType, workHoursByType,
\* totalWorkHours, totalAiDrivenMinutes, totalLinesAdded and totalLinesDeleted.
C4_TeamScopedSumToGlobal ==
    stage = "rendered" =>
        \A k \in 1..Len(developerStats) :
            LET global == developerStats[k]
                d      == global.developer.id
            IN  allFiled(commits, d) =>
                    summedOverTeams(devTeamStatsMap(teamStats, d)) = additiveFields(global)

\* developer d1 (home team t1) has one commit filed under t1 and one under t2
C4_Witness ==
    /\ stage = "rendered"
    /\ Len(commits) = 2
    /\ commits[1].developer_id = "d1" /\ commits[1].team_id = "t1"
    /\ commits[2].developer_id = "d1" /\ commits[2].team_id = "t2"
    /\ Len(devTeamStatsMap(teamStats, "d1")) = 2
    /\ developerStats[1].totalCommits = 2

\* number of commits of cs that satisfy P
Count(cs, P(_)) == Cardinality({i \in 1..Len(cs) : P(cs[i])})

\* the team's totals count exactly the commits filed under the team
teamTotalsByTeamId(ts) ==
    /\ ts.totalCommits = Count(commits, LAMBDA c : c.team_id = ts.team.id)
    /\ ts.totalWorkHours =
           BagSum([i \in 1..Len(commits) |-> OrZero(commits[i].work_hours)],
                  {i \in 1..Len(commits) : commits[i].team_id = ts.team.id})
    /\ ts.totalAiDrivenMinutes =
           BagSum([i \in 1..Len(commits) |-> OrZero(commits[i].ai_driven_minutes)],
                  {i \in 1..Len(commits) : commits[i].team_id = ts.team.id})

\* every commit filed under the team is counted by one embedded developer
\* entry, and an entry counts only commits filed under the team
embeddedByTeamId(ts) ==
    /\ Sum(Map(ts.developers, LAMBDA e : e.totalCommits)) =
           Count(commits, LAMBDA c : c.team_id = ts.team.id)
    /\ \A j \in 1..Len(ts.developers) :
           ts.developers[j].totalCommits =
               Count(commits, LAMBDA c : c.team_id = ts.team.id
                                         /\ c.developer_id = ts.developers[j].developer.id)

\* the prefix counts of the team page count exactly the develop commits filed
\* under the team
prefixCountsByTeamId(teamId) ==
    \A p \in 1..Len(prefixTypes) :
        teamPrefixCounts(commits, teamId)[p].count =
            Count(commits, LAMBDA c : c.team_id = teamId /\ IsDevelop(c)
                                      /\ hasPrefix(c, prefixTypes[p]))

\* the day count of the team page counts the local dates of exactly the
\* commits filed under the team
dayCountByTeamId(teamId) ==
    LET dates == {localDate(commits[i].created_at) :
                      i \in {k \in 1..Len(commits) : commits[k].team_id = teamId}}
    IN  teamDayCount(commits, teamId) = IF dates = {} THEN 1 ELSE Cardinality(dates)

----------------------------------------------------------------------------
(* AgentHashStats and AgentHashDetail: the anomaly classifier *)

\* commits.filter(c => c.agent_hash) with the filter testing for null only
hashCommits_nonNull(cs) == Filter(cs, LAMBDA c : c.agent_hash /= NULL)

\* commits.filter(c => c.agent_hash): null and the empty string are dropped
hashCommits(cs) == Filter(cs, LAMBDA c : Truthy(c.agent_hash))

\* the keys of hashCounts, in insertion order
hashKeys(hc) == DistinctInOrder(Map(hc, LAMBDA c : c.agent_hash))

\* hashCounts.get(hash) || 0
hashCountOf(hc, hash) == Len(Filter(hc, LAMBDA c : c.agent_hash = hash))

RECURSIVE expectedFold_lastWins(_, _)
\* expectedFold with count >= maxCount in place of count > maxCount
expectedFold_lastWins(hc, keys) ==
    IF keys = <<>> THEN [maxCount |-> 0, expected |-> NULL]
    ELSE LET prev  == expectedFold_lastWins(hc, SubSeq(keys, 1, Len(keys) - 1))
             hash  == keys[Len(keys)]
             count == hashCountOf(hc, hash)
         IN  IF count >= prev.maxCount
             THEN [maxCount |-> count, expected |-> hash]
             ELSE prev

\* expectedFold that keeps the first key whatever the counts
expectedFold_firstKey(hc, keys) ==
    IF keys = <<>> THEN [maxCount |-> 0, expected |-> NULL]
    ELSE [maxCount |-> hashCountOf(hc, keys[1]), expected |-> keys[1]]

RECURSIVE expectedFold(_, _)
\* let maxCount = 0, expected = null; hashCounts.forEach((count, hash) => {
\*   if (count > maxCount) { maxCount = count; expected = hash } })
expectedFold(hc, keys) ==
    IF keys = <<>> THEN [maxCount |-> 0, expected |-> NULL]
    ELSE LET prev  == expectedFold(hc, SubSeq(keys, 1, Len(keys) - 1))
             hash  == keys[Len(keys)]
             count == hashCountOf(hc, hash)
         IN  IF count > prev.maxCount
             THEN [maxCount |-> count, expected |-> hash]
             ELSE prev

\* the hashes left in insertion order
sortedHashesOf_insertionOrder(keys, expected) == keys

\* the expected hash first, the others after it in insertion order
sortedHashesOf(keys, expected) ==
    Filter(keys, LAMBDA h : h = expected) \o Filter(keys, LAMBDA h : h /= expected)

\* Date.prototype.getDay of the local date (0 = Sunday); the epoch day was a Thursday
EpochDay == 4
getDay(created_at) == (localDate(created_at) + EpochDay) % 7

\* one DayData per day of week, Monday first: the count of every hash on that day
dailyDataOf(hc, sortedHashes) ==
    LET data == [d \in 1..7 |->
                    [ dayIndex |-> d - 1,
                      counts   |-> Map(sortedHashes, LAMBDA hash :
                                       Len(Filter(hc, LAMBDA c :
                                           c.agent_hash = hash
                                           /\ getDay(c.created_at) = d - 1))) ]]
    IN  SubSeq(data, 2, 7) \o << data[1] >>

\* the useMemo of AgentHashStats
AgentHashStats(cs) ==
    LET hc == hashCommits(cs)
    IN  IF Len(hc) = 0
        THEN [ dailyData    |-> <<>>,
               expectedHash |-> NULL,
               uniqueHashes |-> <<>>,
               summary      |-> [totalCommits |-> 0, normalCount |-> 0, anomalyCount |-> 0],
               hashDetails  |-> <<>> ]
        ELSE LET keys         == hashKeys(hc)
                 expected     == expectedFold(hc, keys).expected
                 sortedHashes == sortedHashesOf(keys, expected)
                 normalCount  == IF Truthy(expected) THEN hashCountOf(hc, expected) ELSE 0
                 anomalyCount == Len(hc) - normalCount
             IN  [ dailyData    |-> dailyDataOf(hc, sortedHashes),
                   expectedHash |-> expected,
                   uniqueHashes |-> sortedHashes,
                   summary      |-> [ totalCommits |-> Len(hc),
                                      normalCount  |-> normalCount,
                                      anomalyCount |-> anomalyCount ],
                   hashDetails  |-> Map(sortedHashes, LAMBDA hash :
                                        [ hash     |-> hash,
                                          count    |-> hashCountOf(hc, hash),
                                          isNormal |-> hash = expected ]) ]

\* isNormal of AgentHashDetail for the hash named in the route
detailIsNormal(cs, decodedHash) ==
    LET hc == hashCommits(cs)
    IN  IF Len(hc) = 0 \/ ~Truthy(decodedHash) THEN FALSE
        ELSE decodedHash = expectedFold(hc, hashKeys(hc)).expected

\* longest commit list of a classifier input
MaxHashCommits == 5

\* agent_hash is nullable text; A, B and C stand for three agent configurations
HashValues == {NULL, "", "A", "B", "C"}
HashCommits == { [BaseCommit EXCEPT !.agent_hash = h] : h \in HashValues }

\* a window with ten commits under A, three under B and two under C, B seen first
ExampleHashes ==
    << "B", "A", "C", "A", "A", "B", "A", "A", "C", "A", "A", "B", "A", "A", "A" >>
ExampleCommits == Map(ExampleHashes, LAMBDA h : [BaseCommit EXCEPT !.agent_hash = h])

InitAnomaly == Fetched(SeqsUpTo(HashCommits, MaxHashCommits) \cup {ExampleCommits})
SpecAnomaly == InitAnomaly /\ [][NextRender]_vars

\* positions of the commits that carry an agent_hash
tagged(cs) == {i \in 1..Len(cs) : Truthy(cs[i].agent_hash)}
\* number of tagged commits under hash h
taggedCount(cs, h) == Cardinality({i \in tagged(cs) : cs[i].agent_hash = h})
\* position of the first commit under hash h
firstSeen(cs, h) ==
    CHOOSE i \in tagged(cs) :
        /\ cs[i].agent_hash = h
        /\ \A j \in tagged(cs) : cs[j].agent_hash = h => i <= j

\* C6: when some commit carries an agent_hash, expectedHash is one of the
\* hashes present and no hash has more commits than it, normalCount is its
\* number of commits, and anomalyCount is the number of tagged commits minus
\* normalCount; counts A:10, B:3, C:2 give expectedHash A, 10 normal, 5 anomalous.
C6_MajorityHashIsExpected ==
    stage = "rendered" /\ tagged(commits) /= {} =>
        LET r == AgentHashStats(commits)
        IN  /\ \E i \in tagged(commits) : commits[i].agent_hash = r.expectedHash
            /\ \A i \in tagged(commits) :
                   taggedCount(commits, commits[i].agent_hash)
                       <= taggedCount(commits, r.expectedHash)
            /\ r.summary.normalCount = taggedCount(commits, r.expectedHash)
            /\ r.summary.anomalyCount =
                   Cardinality(tagged(commits)) - r.summary.normalCount
            /\ commits = ExampleCommits =>
                   /\ r.expectedHash = "A"
                   /\ r.summary.normalCount = 10
                   /\ r.summary.anomalyCount = 5

\* the A:10, B:3, C:2 window has been classified
C6_Witness ==
    /\ stage = "rendered"
    /\ commits = ExampleCommits
    /\ AgentHashStats(commits).expectedHash = "A"
    /\ AgentHashStats(commits).summary.anomalyCount = 5

\* C7: among the hashes that share the highest count, expectedHash is the one
\* whose first commit comes earliest in the list; the detail page marks as
\* normal exactly that hash.
C7_TieGoesToFirstSeen ==
    stage = "rendered" /\ tagged(commits) /= {} =>
        LET e == AgentHashStats(commits).expectedHash
        IN  \A i \in tagged(commits) :
                LET h == commits[i].agent_hash
                IN  /\ taggedCount(commits, h) = taggedCount(commits, e) =>
                           firstSeen(commits, e) <= firstSeen(commits, h)
                    /\ detailIsNormal(commits, h) <=> h = e

\* B and A have two commits each, B was seen first and is the expected hash
C7_Witness ==
    /\ stage = "rendered"
    /\ Len(commits) = 4
    /\ commits[1].agent_hash = "B" /\ commits[2].agent_hash = "A"
    /\ commits[3].agent_hash = "A" /\ commits[4].agent_hash = "B"
    /\ AgentHashStats(commits).expectedHash = "B"
    /\ ~detailIsNormal(commits, "A")

\* C8: when no commit carries an agent_hash the report is the empty one:
\* totalCommits, normalCount and anomalyCount are 0, expectedHash is null and
\* the detail list is empty.
C8_NoHashGivesEmptyReport ==
    stage = "rendered" /\ tagged(commits) = {} =>
        LET r == AgentHashStats(commits)
        IN  /\ r.summary = [totalCommits |-> 0, normalCount |-> 0, anomalyCount |-> 0]
            /\ r.expectedHash = NULL
            /\ r.hashDetails = <<>>
            /\ r.uniqueHashes = <<>>
            /\ r.dailyData = <<>>

\* two commits, one with a null and one with an empty agent_hash
C8_Witness ==
    /\ stage = "rendered"
    /\ Len(commits) = 2
    /\ commits[1].agent_hash = NULL /\ commits[2].agent_hash = ""
    /\ AgentHashStats(commits).summary.totalCommits = 0

----------------------------------------------------------------------------
(* Ingestion endpoint: one action per database round trip of the handler *)

\* messages of the unique-constraint violations and of the TypeError
TeamsNameKey == "duplicate key value violates unique constraint teams_name_key"
DevelopersEmailKey == "duplicate key value violates unique constraint developers_email_key"
CommitsCommitIdKey == "duplicate key value violates unique constraint commits_commit_id_key"
EvaluationTypeError == "Cannot read properties of undefined (reading 'total')"

\* .single(): the row when exactly one row matches, else null
single(rows) == IF Cardinality(rows) = 1 THEN CHOOSE row \in rows : TRUE ELSE [id |-> NULL]

\* requests take their slots in order of arrival
nextSlot(r) ==
    /\ requests[r].pc = "idle"
    /\ IF r = 1 THEN TRUE ELSE requests[r - 1].pc /= "idle"

\* if (req.method === "OPTIONS") return new Response("ok")
Preflight(r) ==
    /\ nextSlot(r)
    /\ requests' = [requests EXCEPT ![r].method = "OPTIONS", ![r].pc = "done",
                                    ![r].response = Response(200, FALSE, NULL)]
    /\ UNCHANGED <<commits, developers, teams, developerStats, teamStats, stage, db, fetch, table, picker>>

\* a POST arrives: its key is checked, its body parsed and validated, with no
\* database access up to there
Receive(r) ==
    /\ nextSlot(r)
    /\ \E input \in Inputs :
        LET apiKey == input[1]
            data   == input[2]
            start  == [requests[r] EXCEPT !.method = "POST", !.apiKey = apiKey, !.data = data]
        IN  requests' = [requests EXCEPT ![r] =
                IF rejection(apiKey, data) /= NoResponse
                THEN [start EXCEPT !.pc = "done", !.response = rejection(apiKey, data)]
                ELSE [start EXCEPT !.pc = "selectTeam"]]
    /\ UNCHANGED <<commits, developers, teams, developerStats, teamStats, stage, db, fetch, table, picker>>

\* SelectTeam that never finds the team
SelectTeam_neverFound(r) ==
    /\ requests[r].pc = "selectTeam"
    /\ requests' = [requests EXCEPT ![r].pc = "insertTeam"]
    /\ UNCHANGED <<commits, developers, teams, developerStats, teamStats, stage, db, fetch, table, picker>>

\* from("teams").select("id").eq("name", data.team_name).single()
SelectTeam(r) ==
    /\ requests[r].pc = "selectTeam"
    /\ LET existingTeam == single({t \in db.teams : t.name = requests[r].data.team_name})
       IN  requests' = [requests EXCEPT ![r] =
               IF existingTeam.id /= NULL
               THEN [@ EXCEPT !.teamId = existingTeam.id, !.pc = "selectDeveloper"]
               ELSE [@ EXCEPT !.pc = "insertTeam"]]
    /\ UNCHANGED <<commits, developers, teams, developerStats, teamStats, stage, db, fetch, table, picker>>

\* from("teams").insert({ name }); teams.name is UNIQUE
InsertTeam(r) ==
    /\ requests[r].pc = "insertTeam"
    /\ LET name == requests[r].data.team_name
       IN  IF \E t \in db.teams : t.name = name
           THEN /\ Respond(r, 500, FALSE, TeamsNameKey)
                /\ UNCHANGED db
           ELSE LET id == TeamIdPool[Cardinality(db.teams) + 1]
                IN  /\ db' = [db EXCEPT !.teams = @ \cup {TeamRow(id, name)}]
                    /\ requests' = [requests EXCEPT ![r].teamId = id,
                                                    ![r].pc = "selectDeveloper"]
    /\ UNCHANGED <<commits, developers, teams, developerStats, teamStats, stage, fetch, table, picker>>

\* SelectDeveloper moving the developer it finds to the team and name of the request
SelectDeveloper_rehomed(r) ==
    /\ requests[r].pc = "selectDeveloper"
    /\ LET data == requests[r].data
           existingDeveloper ==
               IF Truthy(data.developer_email)
               THEN single({d \in db.developers : d.email = data.developer_email})
               ELSE single({d \in db.developers :
                               d.name = data.developer_name /\ d.team_id = requests[r].teamId})
       IN  /\ requests' = [requests EXCEPT ![r] =
                  IF existingDeveloper.id /= NULL
                  THEN [@ EXCEPT !.developerId = existingDeveloper.id, !.pc = "upsertDeveloperTeam"]
                  ELSE [@ EXCEPT !.pc = "insertDeveloper"]]
           /\ db' = [db EXCEPT !.developers =
                        { IF d.id = existingDeveloper.id
                          THEN [d EXCEPT !.name = data.developer_name,
                                         !.team_id = requests[r].teamId]
                          ELSE d : d \in @ }]
    /\ UNCHANGED <<commits, developers, teams, developerStats, teamStats, stage, fetch, table, picker>>

\* by email when the body has one, else by name and team_id; .single()
SelectDeveloper(r) ==
    /\ requests[r].pc = "selectDeveloper"
    /\ LET data == requests[r].data
           existingDeveloper ==
               IF Truthy(data.developer_email)
               THEN single({d \in db.developers : d.email = data.developer_email})
               ELSE single({d \in db.developers :
                               d.name = data.developer_name /\ d.team_id = requests[r].teamId})
       IN  requests' = [requests EXCEPT ![r] =
               IF existingDeveloper.id /= NULL
               THEN [@ EXCEPT !.developerId = existingDeveloper.id, !.pc = "upsertDeveloperTeam"]
               ELSE [@ EXCEPT !.pc = "insertDeveloper"]]
    /\ UNCHANGED <<commits, developers, teams, developerStats, teamStats, stage, db, fetch, table, picker>>

\* from("developers").insert({ name, email || null, team_id }); email is UNIQUE
InsertDeveloper(r) ==
    /\ requests[r].pc = "insertDeveloper"
    /\ LET data  == requests[r].data
           email == IF Truthy(data.developer_email) THEN data.developer_email ELSE NULL
       IN  IF email /= NULL /\ \E d \in db.developers : d.email = email
           THEN /\ Respond(r, 500, FALSE, DevelopersEmailKey)
                /\ UNCHANGED db
           ELSE LET id == DeveloperIdPool[Cardinality(db.developers) + 1]
                IN  /\ db' = [db EXCEPT !.developers = @ \cup
                                 {DeveloperRow(id, data.developer_name, email, requests[r].teamId)}]
                    /\ requests' = [requests EXCEPT ![r].developerId = id,
                                                    ![r].pc = "upsertDeveloperTeam"]
    /\ UNCHANGED <<commits, developers, teams, developerStats, teamStats, stage, fetch, table, picker>>

\* the handler going on to the commit insert without writing the link
UpsertDeveloperTeam_skipped(r) ==
    /\ requests[r].pc = "upsertDeveloperTeam"
    /\ requests' = [requests EXCEPT ![r].pc = "insertCommit"]
    /\ UNCHANGED <<commits, developers, teams, developerStats, teamStats, stage, db, fetch, table, picker>>

\* from("developer_teams").upsert({ developer_id, team_id }, { onConflict })
UpsertDeveloperTeam(r) ==
    /\ requests[r].pc = "upsertDeveloperTeam"
    /\ db' = [db EXCEPT !.developer_teams = @ \cup
                 {[developer_id |-> requests[r].developerId, team_id |-> requests[r].teamId]}]
    /\ requests' = [requests EXCEPT ![r].pc = "insertCommit"]
    /\ UNCHANGED <<commits, developers, teams, developerStats, teamStats, stage, fetch, table, picker>>

\* x || null for a number: 0 and absent both give null
orNull(x) == IF x = 0 \/ x = NullNum THEN NullNum ELSE x

\* the row of from("commits").insert({...})
commitRow(data, developerId, teamId) ==
    [BaseCommit EXCEPT !.commit_id = data.commit_id, !.message = data.message,
                       !.developer_id = developerId, !.team_id = teamId,
                       !.type = storedType(data.type),
                       !.evaluation_total = data.evaluation_total,
                       !.evaluation_complexity = data.evaluation_complexity,
                       !.evaluation_volume = data.evaluation_volume,
                       !.evaluation_thinking = data.evaluation_thinking,
                       !.evaluation_others = data.evaluation_others,
                       !.comment = IF Truthy(data.comment) THEN data.comment ELSE NULL,
                       !.lines_added = OrZero(data.lines_added),
                       !.lines_deleted = OrZero(data.lines_deleted),
                       !.work_hours = orNull(data.work_hours),
                       !.ai_driven_minutes = orNull(data.ai_driven_minutes),
                       !.productivity = orNull(data.productivity)]

\* building the row reads data.evaluation.total, which throws when the body
\* has no evaluation; commits.commit_id is UNIQUE; then the 200 response
InsertCommit(r) ==
    /\ requests[r].pc = "insertCommit"
    /\ LET data == requests[r].data
       IN  IF ~data.evaluation
           THEN /\ Respond(r, 500, FALSE, EvaluationTypeError)
                /\ UNCHANGED db
           ELSE IF \E c \in db.commits : c.commit_id = data.commit_id
           THEN /\ Respond(r, 500, FALSE, CommitsCommitIdKey)
                /\ UNCHANGED db
           ELSE /\ db' = [db EXCEPT !.commits = @ \cup
                            {commitRow(data, requests[r].developerId, requests[r].teamId)}]
                /\ Respond(r, 200, TRUE, NULL)
    /\ UNCHANGED <<commits, developers, teams, developerStats, teamStats, stage, fetch, table, picker>>

InitIngest ==
    /\ commits = <<>> /\ developers = <<>> /\ teams = <<>>
    /\ developerStats = <<>> /\ teamStats = <<>>
    /\ stage = "unmounted"
    /\ db = EmptyDb
    /\ requests = [r \in Requests |-> Idle]
    /\ fetch = Mounted
    /\ table = Unsorted
    /\ picker = NotCalled

NextIngest ==
    \E r \in Requests :
        \/ Preflight(r)
        \/ Receive(r)
        \/ SelectTeam(r)
        \/ InsertTeam(r)
        \/ SelectDeveloper(r)
        \/ InsertDeveloper(r)
        \/ UpsertDeveloperTeam(r)
        \/ InsertCommit(r)

SpecIngest == InitIngest /\ [][NextIngest]_vars

\* request r is a POST that passed the key check and the validation
accepted(r) ==
    /\ requests[r].pc /= "idle"
    /\ requests[r].method = "POST"
    /\ rejection(requests[r].apiKey, requests[r].data) = NoResponse

\* C9: of two ingestion requests with the same commit_id, however their steps
\* interleave, exactly one gets the success response, the other gets an
\* error response caused by the unique constraint on commit_id, and the
\* commits table holds exactly one row with that commit_id.
C9_SameCommitIdOneSucceeds ==
    \A r1, r2 \in Requests :
        ( /\ r1 /= r2
          /\ accepted(r1) /\ accepted(r2)
          /\ requests[r1].pc = "done" /\ requests[r2].pc = "done"
          /\ requests[r1].data.commit_id = requests[r2].data.commit_id )
        => /\ requests[r1].response.success \/ requests[r2].response.success
           /\ requests[r1].response.success =>
                  /\ ~requests[r2].response.success
                  /\ requests[r2].response.error = CommitsCommitIdKey
           /\ Cardinality({c \in db.commits :
                              c.commit_id = requests[r1].data.commit_id}) = 1

\* the x-api-key header is absent or wrong
badKey(apiKey) == ~Truthy(apiKey) \/ apiKey /= expectedApiKey

\* C10: a request whose x-api-key is absent or wrong, or whose body lacks
\* commit_id, message, developer_name or team_name, is answered with an error
\* in the step that receives it, with no table changed then or later by it;
\* a bad key is answered 401 whatever the body, so the key is checked first.
C10_RejectedBeforeAnyWrite ==
    [][\A r \in Requests :
        /\ ( /\ requests[r].pc = "idle" /\ requests'[r].pc /= "idle"
             /\ requests'[r].method = "POST"
             /\ badKey(requests'[r].apiKey) \/ lacksRequired(requests'[r].data) )
           => /\ requests'[r].pc = "done"
              /\ ~requests'[r].response.success
              /\ requests'[r].response.status \in {400, 401, 500}
              /\ requests'[r].response.error /= NULL
              /\ badKey(requests'[r].apiKey) =>
                     requests'[r].response = Response(401, FALSE, "Invalid API key")
              /\ (~badKey(requests'[r].apiKey) /\ requests'[r].data.json) =>
                     requests'[r].response = Response(400, FALSE, "Missing required fields")
              /\ db' = db
        /\ requests[r].pc = "done" => requests'[r] = requests[r]
      ]_vars

\* the first request has stored its commit; the second, with a wrong key and
\* no commit_id, was answered 401 and the tables hold the first one's rows only
C10_Witness ==
    /\ requests[1].pc = "done" /\ requests[1].response.success
    /\ requests[2].pc = "done" /\ requests[2].method = "POST"
    /\ requests[2].apiKey = "bad" /\ requests[2].data.commit_id = NULL
    /\ requests[2].response.status = 401
    /\ Cardinality(db.commits) = 1 /\ Cardinality(db.teams) = 1
    /\ Cardinality(db.developers) = 1 /\ Cardinality(db.developer_teams) = 1

----------------------------------------------------------------------------
(* Ingestion endpoint: identity of developers and teams *)

\* the developer rows that carry the identity key of request r: the email of
\* the body when it has one, else its developer name under the request's team
sameIdentity(r) ==
    IF Truthy(requests[r].data.developer_email)
    THEN {d \in db.developers : d.email = requests[r].data.developer_email}
    ELSE {d \in db.developers : d.name = requests[r].data.developer_name
                                /\ d.team_id = requests[r].teamId}

\* no two developer rows with the same email, none two without email with the
\* same name and team_id
developersDistinct ==
    \A d1, d2 \in db.developers :
        d1 /= d2 =>
            /\ ~(d1.email /= NULL /\ d1.email = d2.email)
            /\ ~(d1.email = NULL /\ d2.email = NULL
                 /\ d1.name = d2.name /\ d1.team_id = d2.team_id)

\* C11: after every step of every interleaving of ingestion requests no two
\* developer rows share a non-null email and no two rows without email share
\* (name, team_id); a request whose identity key matches an existing row takes
\* that row's id, and a row is inserted only when none matches.
C11_DeveloperIdentityUnique ==
    [][ /\ developersDistinct'
        /\ \A r \in Requests :
            /\ ( requests[r].pc = "selectDeveloper" /\ requests'[r] /= requests[r]
                 /\ sameIdentity(r) /= {} )
               => \E d \in sameIdentity(r) : requests'[r].developerId = d.id
            /\ ( requests[r].pc = "insertDeveloper" /\ db'.developers /= db.developers )
               => sameIdentity(r) = {}
      ]_vars

\* the id of the team row with this name
teamNamed(name) == {t.id : t \in {u \in db.teams : u.name = name}}

\* no two team rows with the same name
teamsDistinct == \A t1, t2 \in db.teams : t1 /= t2 => t1.name /= t2.name

\* C12: after every step of every interleaving of ingestion requests no two
\* team rows have the same name; a request naming an existing team takes that
\* team's id, and the developer-team link and the commit it writes carry the
\* id of the team with the name it gave.
C12_TeamByNameUnique ==
    [][ /\ teamsDistinct'
        /\ \A r \in Requests :
            /\ ( requests[r].pc = "selectTeam" /\ requests'[r] /= requests[r]
                 /\ teamNamed(requests[r].data.team_name) /= {} )
               => /\ {requests'[r].teamId} = teamNamed(requests[r].data.team_name)
                  /\ requests'[r].pc = "selectDeveloper"
                  /\ db' = db
            /\ ( requests[r].pc = "upsertDeveloperTeam" /\ requests'[r] /= requests[r] )
               => \A l \in db'.developer_teams \ db.developer_teams :
                      {l.team_id} = teamNamed(requests[r].data.team_name)
            /\ ( requests[r].pc = "insertCommit" /\ requests'[r] /= requests[r] )
               => \A c \in db'.commits \ db.commits :
                      {c.team_id} = teamNamed(requests[r].data.team_name)
      ]_vars

\* two requests with different commit ids under team A have both succeeded:
\* one team row, and both commits carry its id
C12_Witness ==
    /\ requests[1].pc = "done" /\ requests[1].response.success
    /\ requests[2].pc = "done" /\ requests[2].response.success
    /\ requests[1].data.team_name = "A" /\ requests[2].data.team_name = "A"
    /\ Cardinality(db.teams) = 1
    /\ Cardinality(db.commits) = 2
    /\ \A c \in db.commits : {c.team_id} = teamNamed("A")
    /\ \A l \in db.developer_teams : {l.team_id} = teamNamed("A")

----------------------------------------------------------------------------
(* Views: charts and the develop-only figures of the pages *)

\* c.type || "develop" with the fallback left out
effectiveType_raw(c) == c.type

\* const type = c.type || "develop"
effectiveType(c) == IF Truthy(c.type) THEN c.type ELSE "develop"

\* Array.prototype.reverse
Reverse(s) == [i \in 1..Len(s) |-> s[Len(s) + 1 - i]]

\* Array.prototype.slice(-n)
sliceLast(s, n) == IF Len(s) <= n THEN s ELSE SubSeq(s, Len(s) - n + 1, Len(s))

\* (minutes / 60).toFixed(1), in tenths of an hour
minutesToHours(minutes) == (minutes * HoursScale + 30) \div 60

\* the keys of an object filled by one reduce over cs, in insertion order
datesInOrder(cs) == DistinctInOrder(Map(cs, LAMBDA c : localDate(c.created_at)))

\* the number of commits of cs whose effective type is type
typeCountOf(cs, type) == Len(Filter(cs, LAMBDA c : effectiveType(c) = type))

\* the work hours of the commits of cs whose effective type is type
typeHoursOf(cs, type) ==
    Sum(Map(Filter(cs, LAMBDA c : effectiveType(c) = type), LAMBDA c : OrZero(c.work_hours)))

\* DeveloperDetail: teamStatsData, one entry per team_id of the developer's commits
teamStatsData(developerCommits, tms) ==
    LET filed == Filter(developerCommits, LAMBDA c : Truthy(c.team_id))
        tids  == DistinctInOrder(Map(filed, LAMBDA c : c.team_id))
    IN  Map(tids, LAMBDA tid :
            LET mine == Filter(filed, LAMBDA c : c.team_id = tid)
                team == Filter(tms, LAMBDA t : t.id = tid)
            IN  [ name          |-> IF team /= <<>> /\ Truthy(team[1].name)
                                    THEN team[1].name ELSE "Unknown",
                  develop       |-> typeCountOf(mine, "develop"),
                  meeting       |-> typeCountOf(mine, "meeting"),
                  chore         |-> typeCountOf(mine, "chore"),
                  workHours     |-> Sum(Map(mine, LAMBDA c : OrZero(c.work_hours))),
                  aiDrivenHours |-> minutesToHours(
                                        Sum(Map(mine, LAMBDA c : OrZero(c.ai_driven_minutes)))) ])

\* DeveloperDetail: developCommitsOnly
developCommitsOnly(developerCommits) ==
    Filter(developerCommits, LAMBDA c : c.type = "develop" \/ c.type = NULL)

\* DeveloperDetail: developEvaluationBreakdown (the radar chart)
developEvaluationBreakdown(developerCommits) ==
    LET only  == developCommitsOnly(developerCommits)
        count == Len(only)
    IN  [ complexity |-> IF count > 0
                         THEN Ratio(Sum(Map(only, LAMBDA c : OrZero(c.evaluation_complexity))), count)
                         ELSE Zero,
          volume     |-> IF count > 0
                         THEN Ratio(Sum(Map(only, LAMBDA c : OrZero(c.evaluation_volume))), count)
                         ELSE Zero,
          thinking   |-> IF count > 0
                         THEN Ratio(Sum(Map(only, LAMBDA c : OrZero(c.evaluation_thinking))), count)
                         ELSE Zero,
          others     |-> IF count > 0
                         THEN Ratio(Sum(Map(only, LAMBDA c : OrZero(c.evaluation_others))), count)
                         ELSE Zero ]

\* DeveloperDetail: developLinesAdded, developLinesDeleted
developLines(developerCommits) ==
    LET only == developCommitsOnly(developerCommits)
    IN  [ added   |-> Sum(Map(only, LAMBDA c : OrZero(c.lines_added))),
          deleted |-> Sum(Map(only, LAMBDA c : OrZero(c.lines_deleted))) ]

\* DeveloperDetail: commitChartData
commitChartData(developerCommits) ==
    sliceLast(Reverse(Map(datesInOrder(developerCommits), LAMBDA date :
        LET day == Filter(developerCommits, LAMBDA c : localDate(c.created_at) = date)
        IN  [ date    |-> date,
              develop |-> typeCountOf(day, "develop"),
              meeting |-> typeCountOf(day, "meeting"),
              chore   |-> typeCountOf(day, "chore") ])), 14)

\* DeveloperDetail: timeChartData
timeChartData(developerCommits) ==
    sliceLast(Reverse(Map(datesInOrder(developerCommits), LAMBDA date :
        LET day == Filter(developerCommits, LAMBDA c : localDate(c.created_at) = date)
        IN  [ date    |-> date,
              develop |-> typeHoursOf(day, "develop"),
              meeting |-> typeHoursOf(day, "meeting"),
              chore   |-> typeHoursOf(day, "chore"),
              aiTime  |-> minutesToHours(Sum(Map(
                              Filter(day, LAMBDA c : effectiveType(c) = "develop"),
                              LAMBDA c : OrZero(c.ai_driven_minutes)))) ])), 14)

\* linesChartData of a list of develop commits (DeveloperDetail and TeamDetail)
linesChartOf(developCommits) ==
    sliceLast(Reverse(Map(datesInOrder(developCommits), LAMBDA date :
        LET day == Filter(developCommits, LAMBDA c : localDate(c.created_at) = date)
        IN  [ date    |-> date,
              added   |-> Sum(Map(day, LAMBDA c : OrZero(c.lines_added))),
              deleted |-> Sum(Map(day, LAMBDA c : OrZero(c.lines_deleted))) ])), 14)

\* DeveloperDetail: linesChartData
developerLinesChartData(developerCommits) == linesChartOf(developCommitsOnly(developerCommits))

\* TeamDetail: linesChartData
teamLinesChartData(cs, teamId) == linesChartOf(teamDevelopCommits(cs, teamId))

\* TeamDetail: developLinesAdded, developLinesDeleted (summed from the members' stats)
teamDevelopLines(tStats, teamId) ==
    LET members == teamMembers(tStats, teamId)
    IN  [ added   |-> Sum(Map(members, LAMBDA d : d.totalLinesAdded)),
          deleted |-> Sum(Map(members, LAMBDA d : d.totalLinesDeleted)) ]

RECURSIVE sortAscending(_)
\* the members of a set of numbers in ascending order
sortAscending(S) ==
    IF S = {} THEN <<>>
    ELSE LET m == CHOOSE x \in S : \A y \in S : x <= y
         IN  <<m>> \o sortAscending(S \ {m})

\* DeveloperStats: dailyCommitData, sorted by date key; a type outside the three
\* adds a property of its own to the day's entry
dailyCommitData(cs) ==
    Map(sortAscending({localDate(cs[i].created_at) : i \in 1..Len(cs)}), LAMBDA date :
        LET day == Filter(cs, LAMBDA c : localDate(c.created_at) = date)
        IN  [ date    |-> date,
              develop |-> typeCountOf(day, "develop"),
              meeting |-> typeCountOf(day, "meeting"),
              chore   |-> typeCountOf(day, "chore"),
              other   |-> {effectiveType(day[i]) : i \in 1..Len(day)}
                              \ {"develop", "meeting", "chore"} ])

\* DeveloperStats: totalLinesAdded, totalLinesDeleted
statsTotalLines(cs) ==
    LET developCommits == Filter(cs, LAMBDA c : c.type = "develop" \/ c.type = NULL)
    IN  [ added   |-> Sum(Map(developCommits, LAMBDA c : OrZero(c.lines_added))),
          deleted |-> Sum(Map(developCommits, LAMBDA c : OrZero(c.lines_deleted))) ]

\* DeveloperStats: developLinesMap.devMap.get(devId), absent read as zeros
developLinesMap(cs, devId) ==
    LET mine == Filter(cs, LAMBDA c :
                    /\ ~(c.type /= "develop" /\ c.type /= NULL)
                    /\ Truthy(c.developer_id)
                    /\ c.developer_id = devId)
    IN  [ added   |-> Sum(Map(mine, LAMBDA c : OrZero(c.lines_added))),
          deleted |-> Sum(Map(mine, LAMBDA c : OrZero(c.lines_deleted))) ]

\* useCommits: summary
summaryOf(cs, devs, tms) ==
    [ totalCommits         |-> Len(cs),
      avgEvaluation        |-> MeanOf(cs, LAMBDA c : OrZero(c.evaluation_total)),
      avgProductivity      |-> MeanOf(cs, LAMBDA c : OrZero(c.productivity)),
      totalWorkHours       |-> Sum(Map(cs, LAMBDA c : OrZero(c.work_hours))),
      totalAiDrivenMinutes |-> Sum(Map(cs, LAMBDA c : OrZero(c.ai_driven_minutes))),
      totalTeams           |-> Len(tms),
      totalDevelopers      |-> Len(devs) ]

----------------------------------------------------------------------------
(* Commits of every type, with scores, lines and dates on each *)

MaxAggCommits == 2

\* type, message, created_at and a size w that the numeric fields follow: w
\* hours of work for 60 / w minutes of AI time, so that the stored productivity
\* is the commit's own (work_hours * 60 / ai_driven_minutes) * 100
AggVariants ==
    { [type |-> "develop", message |-> <<"F","i","x","(","a",")">>, created_at |-> 0,  w |-> 1],
      [type |-> NULL,      message |-> <<"f","e","a","t",":">>,     created_at |-> 20, w |-> 2],
      [type |-> NULL,      message |-> <<"F","I","X",":">>,         created_at |-> 0,  w |-> 3],
      [type |-> "develop", message |-> <<"f","i","x","u","p">>,     created_at |-> 50, w |-> 2],
      [type |-> "meeting", message |-> <<"f","i","x",":">>,         created_at |-> 30, w |-> 3],
      [type |-> "chore",   message |-> <<"d","o","c","s","(">>,     created_at |-> 50, w |-> 1] }

AggCommit(d, t, v) ==
    [BaseCommit EXCEPT !.developer_id = d, !.team_id = t,
                       !.type = v.type, !.message = v.message, !.created_at = v.created_at,
                       !.evaluation_total = 2 * v.w + 1,
                       !.evaluation_complexity = v.w,
                       !.evaluation_volume = v.w + 1,
                       !.evaluation_thinking = v.w + 2,
                       !.evaluation_others = 0,
                       !.lines_added = 5 * v.w, !.lines_deleted = 7 * v.w + 1,
                       !.work_hours = v.w * HoursScale,
                       !.ai_driven_minutes = 60 \div v.w,
                       !.productivity = 100 * v.w * v.w]

\* who committed to which team: d1 to both teams, d2 to its own
AggPlaces == { <<"d1", "t1">>, <<"d1", "t2">>, <<"d2", "t2">> }

AggCommits == {AggCommit(p[1], p[2], v) : p \in AggPlaces, v \in AggVariants}

\* three commits of three hours each on three local dates
ThreeDays ==
    << AggCommit("d1", "t1", [type |-> "develop", message |-> <<"a">>, created_at |-> 0,  w |-> 3]),
       AggCommit("d1", "t1", [type |-> "develop", message |-> <<"b">>, created_at |-> 16, w |-> 3]),
       AggCommit("d1", "t1", [type |-> "develop", message |-> <<"c">>, created_at |-> 40, w |-> 3]) >>

InitAgg == Fetched(SeqsUpTo(AggCommits, MaxAggCommits) \cup {ThreeDays})
SpecAgg == InitAgg /\ [][NextRender]_vars

\* the list with every type null rewritten to "develop"
asDevelop(cs) ==
    Map(cs, LAMBDA c : IF c.type = NULL THEN [c EXCEPT !.type = "develop"] ELSE c)

\* every figure the hook and the three pages derive from a commit list
aggregatesOf(cs) ==
    [ developerStats |-> developerStatsMemo(cs, HookDevelopers),
      teamStats      |-> teamStatsMemo(cs, HookDevelopers, HookTeams),
      summary        |-> summaryOf(cs, HookDevelopers, HookTeams),
      developMinutes |-> aiDrivenMinutesByType(cs),
      developScore   |-> avgEvaluationDevelop(cs),
      developer      |-> [d \in DeveloperIds |->
          LET dc == developerCommitsOf(cs, d)
          IN  [ typeStats    |-> [t \in {"develop", "meeting", "chore"} |-> typeStatOf(dc, t)],
                prefixCounts |-> typePrefixCounts(dc),
                teamStats    |-> teamStatsData(dc, HookTeams),
                breakdown    |-> developEvaluationBreakdown(dc),
                lines        |-> developLines(dc),
                commitChart  |-> commitChartData(dc),
                timeChart    |-> timeChartData(dc),
                linesChart   |-> developerLinesChartData(dc),
                productivity |-> developerProductivity(cs, d) ]],
      team           |-> [t \in TeamIds |->
          LET ts == teamStatsMemo(cs, HookDevelopers, HookTeams)
          IN  [ typeStats    |-> teamTypeStats(ts, t),
                workHours    |-> teamWorkHoursByType(ts, t),
                lines        |-> teamDevelopLines(ts, t),
                prefixCounts |-> teamPrefixCounts(cs, t),
                linesChart   |-> teamLinesChartData(cs, t),
                productivity |-> teamProductivity(ts, cs, t) ]],
      stats          |-> [ dailyCommitData |-> dailyCommitData(cs),
                           totalLines      |-> statsTotalLines(cs),
                           developLines    |-> [d \in DeveloperIds |-> developLinesMap(cs, d)],
                           avgProductivity |-> avgProductivity(
                                                   developerStatsMemo(cs, HookDevelopers), cs) ] ]

\* C13: every aggregate treats a commit of type null exactly as a commit of
\* type "develop": the rendered stats and every figure of the pages are the
\* ones the same list gives once each null type is rewritten to "develop".
C13_NullTypeIsDevelop ==
    stage = "rendered" =>
        /\ developerStats = developerStatsMemo(asDevelop(commits), developers)
        /\ teamStats = teamStatsMemo(asDevelop(commits), developers, teams)
        /\ aggregatesOf(commits) = aggregatesOf(asDevelop(commits))

\* rendered from a list that holds a null-type commit and a develop commit
\* on the same local date
C13_Witness ==
    /\ stage = "rendered"
    /\ Len(commits) = 2
    /\ commits[1].type = NULL /\ commits[2].type = "develop"
    /\ commits[1].developer_id = commits[2].developer_id
    /\ localDate(commits[1].created_at) = localDate(commits[2].created_at)
    /\ developLines(developerCommitsOf(commits, commits[1].developer_id)).added
           = commits[1].lines_added + commits[2].lines_added

\* the develop commits of one developer, and of one team
developOf(cs, d) == Filter(cs, LAMBDA c : c.developer_id = d /\ IsDevelop(c))
developOfTeam(cs, t) == Filter(cs, LAMBDA c : c.team_id = t /\ IsDevelop(c))

\* C14: totalLinesAdded and totalLinesDeleted of every developer's stats, and
\* the team page's line totals summed from the members' stats, are the sums of
\* lines_added and lines_deleted over the develop-type commits only.
C14_LineSumsDevelopOnly ==
    stage = "rendered" =>
        /\ \A i \in 1..Len(developerStats) :
            LET s    == developerStats[i]
                only == developOf(commits, s.developer.id)
            IN  /\ s.totalLinesAdded = Sum(Map(only, LAMBDA c : OrZero(c.lines_added)))
                /\ s.totalLinesDeleted = Sum(Map(only, LAMBDA c : OrZero(c.lines_deleted)))
        /\ \A t \in TeamIds :
            LET only == developOfTeam(commits, t)
            IN  /\ teamDevelopLines(teamStats, t).added
                       = Sum(Map(only, LAMBDA c : OrZero(c.lines_added)))
                /\ teamDevelopLines(teamStats, t).deleted
                       = Sum(Map(only, LAMBDA c : OrZero(c.lines_deleted)))

\* C15: avgEvaluation and the four evaluationBreakdown values of every
\* developer's stats are the means of the evaluation fields over the
\* developer's develop-type commits only (missing values count as 0), so they
\* are the values the same list gives with its meeting and chore commits removed.
C15_EvaluationMeansDevelopOnly ==
    stage = "rendered" =>
        \A i \in 1..Len(developerStats) :
            LET s    == developerStats[i]
                only == developOf(commits, s.developer.id)
            IN  /\ s.avgEvaluation = MeanOf(only, LAMBDA c : OrZero(c.evaluation_total))
                /\ s.evaluationBreakdown =
                     [ complexity |-> MeanOf(only, LAMBDA c : OrZero(c.evaluation_complexity)),
                       volume     |-> MeanOf(only, LAMBDA c : OrZero(c.evaluation_volume)),
                       thinking   |-> MeanOf(only, LAMBDA c : OrZero(c.evaluation_thinking)),
                       others     |-> MeanOf(only, LAMBDA c : OrZero(c.evaluation_others)) ]

\* C16: the summary's productivity is the ratio of the develop sums
\* (work hours * 60 / AI minutes * 100, 0 unless both sums are positive) and
\* its average score is the mean of evaluation_total over develop commits.
C16_SummaryFromDevelopSums ==
    stage = "rendered" =>
        LET summary == summaryOf(commits, developers, teams)
            only    == Filter(commits, IsDevelop)
        IN  /\ summary.avgProductivity =
                 productivity(Sum(Map(only, LAMBDA c : OrZero(c.work_hours))),
                              Sum(Map(only, LAMBDA c : OrZero(c.ai_driven_minutes))))
            /\ summary.avgEvaluation = MeanOf(only, LAMBDA c : OrZero(c.evaluation_total))

\* DeveloperStats: dayCount, over all commits of the window
statsDayCount(cs) == dayCountOf(cs)

\* (totalWorkHours / dayCount), in tenths of an hour
dailyAverage(totalWorkHours, dayCount) == Ratio(totalWorkHours, dayCount)

\* the number of commits that are the first of their local calendar date
firstOfDate(cs) ==
    Cardinality({i \in 1..Len(cs) :
        \A j \in 1..(i - 1) :
            (cs[j].created_at + TzOffsetHours) \div 24 /= (cs[i].created_at + TzOffsetHours) \div 24})

\* n is the day count of the view showing cs
isDayCount(n, cs) ==
    /\ n = IF cs = <<>> THEN 1 ELSE firstOfDate(cs)
    /\ n >= 1
    /\ Len(cs) > 0 => n <= Len(cs)

\* C17: on each page dayCount is the number of distinct local calendar dates
\* among the page's commits and 1 when there are none, so it is at least 1 and
\* at most the number of commits; the daily average is total / dayCount, and
\* three dates with 9 work hours give 3.
C17_DayCountDistinctLocalDates ==
    stage = "rendered" =>
        /\ isDayCount(statsDayCount(commits), commits)
        /\ \A d \in DeveloperIds :
            isDayCount(developerDayCount(commits, d),
                       Filter(commits, LAMBDA c : c.developer_id = d))
        /\ \A t \in TeamIds :
            isDayCount(teamDayCount(commits, t), Filter(commits, LAMBDA c : c.team_id = t))
        /\ commits = ThreeDays =>
            /\ developerDayCount(commits, "d1") = 3
            /\ developerStats[1].totalWorkHours = 9 * HoursScale
            /\ dailyAverage(developerStats[1].totalWorkHours,
                            developerDayCount(commits, "d1")) = Ratio(3 * HoursScale, 1)

\* the three-date window is rendered: two of its commits share a UTC date
C17_Witness ==
    /\ stage = "rendered"
    /\ commits = ThreeDays
    /\ commits[1].created_at \div 24 = commits[2].created_at \div 24
    /\ statsDayCount(commits) = 3
    /\ teamDayCount(commits, "t2") = 1

\* letter x is letter y in either case
sameLetter(x, y) ==
    \/ x = y
    \/ \E k \in 1..Len(Lowers) : Lowers[k] = y /\ Uppers[k] = x

\* the message starts with p in any mix of cases, followed by "(" or ":"
opensWith(message, p) ==
    /\ Len(message) > Len(p)
    /\ \A j \in 1..Len(p) : sameLetter(message[j], p[j])
    /\ message[Len(p) + 1] \in {"(", ":"}

\* C18: bucket p of the developer page and of the team page counts exactly
\* the develop-type commits (type develop or null) whose message starts with p,
\* in any case, followed by "(" or ":"; meeting and chore commits are in no bucket.
C18_PrefixBuckets ==
    stage = "rendered" =>
        \A k \in 1..Len(prefixTypes) :
            /\ \A d \in DeveloperIds :
                LET entry == typePrefixCounts(developerCommitsOf(commits, d))[k]
                IN  /\ entry.prefix = prefixTypes[k]
                    /\ entry.count = Cardinality({i \in 1..Len(commits) :
                           /\ commits[i].developer_id = d
                           /\ commits[i].type \in {"develop", NULL}
                           /\ opensWith(commits[i].message, prefixTypes[k])})
            /\ \A t \in TeamIds :
                LET entry == teamPrefixCounts(commits, t)[k]
                IN  /\ entry.prefix = prefixTypes[k]
                    /\ entry.count = Cardinality({i \in 1..Len(commits) :
                           /\ commits[i].team_id = t
                           /\ commits[i].type \in {"develop", NULL}
                           /\ opensWith(commits[i].message, prefixTypes[k])})

\* a develop commit "Fix(a)" is in the fix bucket; a meeting commit "fix:" of
\* the same developer and team is not
C18_Witness ==
    /\ stage = "rendered"
    /\ Len(commits) = 2
    /\ commits[1].type = "develop" /\ commits[1].message = <<"F","i","x","(","a",")">>
    /\ commits[2].type = "meeting" /\ commits[2].message = <<"f","i","x",":">>
    /\ commits[1].developer_id = "d1" /\ commits[2].developer_id = "d1"
    /\ commits[1].team_id = "t1" /\ commits[2].team_id = "t1"
    /\ typePrefixCounts(developerCommitsOf(commits, "d1"))[2].count = 1
    /\ teamPrefixCounts(commits, "t1")[2].count = 1

----------------------------------------------------------------------------
(* Ingestion: what the inserted row holds *)

\* the fields of the body that the row stores under the same name
storedFields ==
    { "evaluation_total", "evaluation_complexity", "evaluation_volume",
      "evaluation_thinking", "evaluation_others", "work_hours", "ai_driven_minutes",
      "productivity", "lines_added", "lines_deleted", "type", "comment" }

\* the body carries the field
submitted(data, f) == data[f] /= (IF f \in {"type", "comment"} THEN NULL ELSE NullNum)

\* C19: for every accepted request the commit row of its commit_id holds, in
\* each of the twelve value fields, the value the request submitted, whatever
\* the value (0 and the empty comment included).
C19_StoredAsGiven ==
    \A r \in Requests :
        (requests[r].pc = "done" /\ requests[r].response.success) =>
            \E c \in db.commits :
                /\ c.commit_id = requests[r].data.commit_id
                /\ \A f \in storedFields :
                    submitted(requests[r].data, f) => c[f] = requests[r].data[f]

----------------------------------------------------------------------------
(* useCommits: fetchData, one action per await *)

\* fetchData runs at mount, at each change of dateRange and at each refetch
MaxFetches == 2

\* the three queries of the Promise.all, in the order their errors are checked
FirstQueries == << "commits", "developers", "teams" >>

\* what the developer_teams query may return
LinkLists == { <<>>, << [developer_id |-> "d1", team_id |-> "t1"] >> }

\* a stored commit created at millisecond ms of hour h
StoredCommit(commit_id, h, ms) ==
    [BaseCommit EXCEPT !.commit_id = commit_id, !.created_at = h, !.created_at_ms = ms]

\* the commits table read by the dashboard: rows around the two ends of day 1
StoreCommits ==
    { StoredCommit("c1", 24 - TzOffsetHours - 1, 3599999),
      StoredCommit("c2", 24 - TzOffsetHours, 0),
      StoredCommit("c3", 48 - TzOffsetHours - 1, 3599000),
      StoredCommit("c4", 48 - TzOffsetHours - 1, 3599500),
      StoredCommit("c5", 48 - TzOffsetHours, 0) }

\* the tables while the dashboard is open
Store ==
    [ teams           |-> {HookTeams[i] : i \in 1..Len(HookTeams)},
      developers      |-> {HookDevelopers[i] : i \in 1..Len(HookDevelopers)},
      developer_teams |-> {},
      commits         |-> StoreCommits ]

\* the ranges the date filter is set to: a day, no bounds (Reset), one bound
DateRanges ==
    { InitialRange, DateRange(NoDate, NoDate), DateRange(2, NoDate), DateRange(NoDate, 1) }

\* .gte('created_at', `${startDate}T00:00:00+09:00`)
gteStart(c, startDate) == c.created_at >= 24 * startDate - TzOffsetHours

\* .lte('created_at', `${endDate}T23:59:59+09:00`)
lteEnd(c, endDate) ==
    \/ c.created_at < 24 * endDate + 23 - TzOffsetHours
    \/ c.created_at = 24 * endDate + 23 - TzOffsetHours /\ c.created_at_ms <= 3599000

RECURSIVE orderDesc(_)
\* .order('created_at', { ascending: false }) of rows with distinct timestamps
orderDesc(rows) ==
    IF rows = {} THEN <<>>
    ELSE LET latest == CHOOSE c \in rows : \A o \in rows : atOrAfter(c, o)
         IN  <<latest>> \o orderDesc(rows \ {latest})

\* commitsQuery as fetchData builds it for the range of its closure
commitsQuery(rows, range) ==
    orderDesc({c \in rows :
        /\ range.startDate /= NoDate => gteStart(c, range.startDate)
        /\ range.endDate /= NoDate => lteEnd(c, range.endDate)})

\* err instanceof Error ? err.message : 'Failed to fetch data'
errorText(query, isError) == IF isError THEN query ELSE "Failed to fetch data"

\* fetchData is called: at mount with the initial range, later through
\* setDateRange(range) or refetch (the range as it is). setLoading(true);
\* setError(null); the three queries are sent with the range of the closure.
StartFetch ==
    /\ Len(fetch.calls) < MaxFetches
    /\ \E range \in DateRanges :
        /\ fetch.calls = <<>> => range = fetch.dateRange
        /\ fetch' = [fetch EXCEPT !.loading = TRUE, !.error = NULL, !.dateRange = range,
                                  !.calls = Append(@, Call("first", range, {}))]
    /\ UNCHANGED <<commits, developers, teams, developerStats, teamStats, stage, db, requests, table, picker>>

\* the Promise.all of call k resolves: the first error in checking order is
\* thrown and caught (setError, then setLoading(false)); with none the three
\* lists are set
FirstSettles(k) ==
    /\ fetch.calls[k].pc = "first"
    /\ \E F \in SUBSET {FirstQueries[i] : i \in 1..Len(FirstQueries)}, isError \in BOOLEAN :
        IF F /= {}
        THEN LET first == CHOOSE i \in 1..Len(FirstQueries) :
                             /\ FirstQueries[i] \in F
                             /\ \A j \in 1..(i - 1) : FirstQueries[j] \notin F
             IN  /\ fetch' = [fetch EXCEPT !.loading = FALSE,
                                           !.error = errorText(FirstQueries[first], isError),
                                           !.calls[k].pc = "settled",
                                           !.calls[k].failed = F]
                 /\ UNCHANGED <<commits, developers, teams, stage>>
        ELSE /\ commits' = commitsQuery(db.commits, fetch.calls[k].range)
             /\ developers' = HookDevelopers
             /\ teams' = HookTeams
             /\ stage' = "fetched"
             /\ fetch' = [fetch EXCEPT !.calls[k].pc = "second"]
    /\ UNCHANGED <<developerStats, teamStats, db, requests, table, picker>>

\* the developer_teams query of call k resolves: its rows are set unless it
\* returned an error; then setLoading(false)
SecondSettles(k) ==
    /\ fetch.calls[k].pc = "second"
    /\ \E failedQuery \in BOOLEAN, links \in LinkLists :
        fetch' = [fetch EXCEPT !.loading = FALSE,
                               !.calls[k].pc = "settled",
                               !.calls[k].failed = IF failedQuery THEN {"developer_teams"} ELSE {},
                               !.developerTeams = IF failedQuery THEN @ ELSE links]
    /\ UNCHANGED <<commits, developers, teams, developerStats, teamStats, stage, db, requests, table, picker>>

\* the hook mounts with empty lists
InitFetch ==
    /\ commits = <<>> /\ developers = <<>> /\ teams = <<>>
    /\ developerStats = <<>> /\ teamStats = <<>>
    /\ stage = "fetched"
    /\ db = Store
    /\ requests = [r \in Requests |-> Idle]
    /\ fetch = Mounted
    /\ table = Unsorted
    /\ picker = NotCalled

NextFetch ==
    \/ StartFetch
    \/ \E k \in 1..Len(fetch.calls) : FirstSettles(k) \/ SecondSettles(k)
    \/ Render
SpecFetch == InitFetch /\ [][NextFetch]_vars

\* DashboardPage: which of its three bodies it returns
DashboardPage ==
    IF fetch.loading THEN "loading"
    ELSE IF Truthy(fetch.error) THEN "error"
    ELSE "dashboard"

\* call k settles in this step
settles(k) ==
    /\ k <= Len(fetch.calls)
    /\ fetch.calls[k].pc /= "settled"
    /\ fetch'.calls[k].pc = "settled"

\* C20: when a fetch settles, if any of its queries (commits, developers,
\* teams, developer_teams) returned an error, the hook's error is non-null and
\* the page shows the error state.
C20_QueryErrorsSurfaced ==
    [][ \A k \in 1..MaxFetches :
            (settles(k) /\ fetch'.calls[k].failed /= {}) =>
                /\ fetch'.error /= NULL
                /\ DashboardPage' = "error" ]_vars

\* the stored commits whose local calendar date lies within the range
withinRange(rows, range) ==
    {c \in rows :
        /\ range.startDate /= NoDate => localDate(c.created_at) >= range.startDate
        /\ range.endDate /= NoDate => localDate(c.created_at) <= range.endDate}

\* call k sets the three lists in this step
delivers(k) ==
    /\ k <= Len(fetch.calls)
    /\ fetch.calls[k].pc = "first"
    /\ fetch'.calls[k].pc = "second"

\* C21: the commits a fetch returns are exactly the stored commits created
\* from 00:00 of startDate to the end of endDate, an empty startDate or endDate
\* leaving that side unbounded.
C21_FetchedIffInRange ==
    [][ \A k \in 1..MaxFetches :
            delivers(k) =>
                {commits'[i] : i \in 1..Len(commits')}
                    = withinRange(db.commits, fetch.calls[k].range) ]_vars

\* every fetchData call made so far has settled
allSettled == \A k \in 1..Len(fetch.calls) : fetch.calls[k].pc = "settled"

\* no query of any call returned an error
noneFailed == \A k \in 1..Len(fetch.calls) : fetch.calls[k].failed = {}

inFlight(k) == k <= Len(fetch.calls) /\ fetch.calls[k].pc /= "settled"

----------------------------------------------------------------------------
(* Ingestion: references of the rows it writes *)

\* C23: in every state of ingestion, whatever requests failed part-way, every
\* commit row references a team row and a developer row that exist, and the
\* developer_teams row of its (developer_id, team_id) pair exists; and the
\* rows a request leaves behind when it fails are written in the order team,
\* developer, link, commit.
C23_CommitReferencesExist ==
    /\ \A c \in db.commits :
        /\ \E t \in db.teams : t.id = c.team_id
        /\ \E d \in db.developers : d.id = c.developer_id
        /\ [developer_id |-> c.developer_id, team_id |-> c.team_id] \in db.developer_teams
    /\ \A l \in db.developer_teams :
        /\ \E t \in db.teams : t.id = l.team_id
        /\ \E d \in db.developers : d.id = l.developer_id
    /\ \A d \in db.developers : \E t \in db.teams : t.id = d.team_id

\* one request has stored its commit; the other failed at the commit insert
\* after writing a second team, its developer and their link
C23_Witness ==
    /\ requests[1].pc = "done" /\ requests[1].response.success
    /\ requests[2].pc = "done" /\ requests[2].response.status = 500
    /\ requests[2].response.error = CommitsCommitIdKey
    /\ Cardinality(db.commits) = 1
    /\ Cardinality(db.teams) = 2
    /\ Cardinality(db.developer_teams) = 2

----------------------------------------------------------------------------
(* The team_id correction script run against the ingested tables *)

\* the three uuid literals of the script: the developer whose commits are
\* moved, the team they are moved from and the team they are moved to
ScriptDeveloperId == DeveloperIdPool[1]
ScriptFromTeamId == TeamIdPool[1]
ScriptToTeamId == TeamIdPool[2]

\* WHERE developer_id = '...' AND team_id = '...'
scriptMatches(c) ==
    c.developer_id = ScriptDeveloperId /\ c.team_id = ScriptFromTeamId

\* UPDATE commits SET team_id = '...' WHERE ...; commits.team_id REFERENCES
\* teams(id), so the statement fails unless the target team exists
UpdateCommitsTeamId ==
    /\ \E t \in db.teams : t.id = ScriptToTeamId
    /\ \E c \in db.commits : scriptMatches(c)
    /\ db' = [db EXCEPT !.commits =
                { IF scriptMatches(c) THEN [c EXCEPT !.team_id = ScriptToTeamId] ELSE c
                  : c \in @ }]
    /\ UNCHANGED <<commits, developers, teams, developerStats, teamStats, stage, requests, fetch, table, picker>>

NextMaintain ==
    \/ NextIngest
    \/ UpdateCommitsTeamId

SpecMaintain == InitIngest /\ [][NextMaintain]_vars

\* C24: under every sequence of operations the team, developer and commit
\* rows only grow: a commit row that exists stays, with every field as it
\* was, and no team or developer row is removed.
C24_RowsOnlyGrow ==
    [][ /\ db.commits \subseteq db'.commits
        /\ db.teams \subseteq db'.teams
        /\ db.developers \subseteq db'.developers ]_vars

\* the ingestion steps alone never change or remove a row
C24_IngestionOnlyGrows ==
    [][ NextIngest => /\ db.commits \subseteq db'.commits
                      /\ db.teams \subseteq db'.teams
                      /\ db.developers \subseteq db'.developers ]_vars

----------------------------------------------------------------------------
(* DeveloperStats: the sortable table of all developers *)

\* the columns of the table header, each with onClick={() => handleSort(col.key)}
SortKeys ==
    << "name", "team", "commits", "develop", "meeting", "chore", "avgScore",
       "lines", "workHours", "aiMinutes", "productivity" >>

\* teamMap.get(devId): the names of the developer's teams, from developerTeams
\* when it has rows, else from the team joined to the developer row
teamMap(devId, tms, links, stats) ==
    LET nameOf(teamId) ==
            LET hits == Filter(tms, LAMBDA t : t.id = teamId)
            IN  IF hits = <<>> THEN NULL ELSE hits[Len(hits)].name
    IN  IF Len(links) > 0
        THEN Filter(Map(Filter(links, LAMBDA dt : dt.developer_id = devId),
                        LAMBDA dt : nameOf(dt.team_id)),
                    Truthy)
        ELSE Flatten(Map(Filter(stats, LAMBDA s : s.developer.id = devId),
                         LAMBDA s : IF Truthy(nameOf(s.developer.team_id))
                                    THEN << nameOf(s.developer.team_id) >>
                                    ELSE <<>>))

RECURSIVE join(_)
\* Array.prototype.join(",") over the team names of the inputs
join(names) ==
    IF names = <<>> THEN ""
    ELSE IF Len(names) = 1 THEN names[1]
    ELSE IF names = << "A", "B" >> THEN "A,B"
    ELSE IF names = << "B", "A" >> THEN "B,A"
    ELSE names[1]

\* the strings getVal can return for the inputs, in the order of localeCompare
LocaleOrder == << "", "A", "A,B", "alice", "B", "B,A", "bob" >>
localeRank(str) == CHOOSE i \in 1..Len(LocaleOrder) : LocaleOrder[i] = str

\* getVal(s): a string for the name and team columns, a number for the others
getVal(s, sortKey, cs, tms, links, stats) ==
    LET devId == s.developer.id
        mine  == Filter(cs, LAMBDA c : c.developer_id = devId)
        num(n) == [isString |-> FALSE, v |-> Ratio(n, 1)]
    IN  IF sortKey = "name" THEN [isString |-> TRUE, v |-> s.developer.name]
        ELSE IF sortKey = "team"
            THEN [isString |-> TRUE, v |-> join(teamMap(devId, tms, links, stats))]
        ELSE IF sortKey = "commits" THEN num(s.totalCommits)
        ELSE IF sortKey = "develop" THEN num(s.commitsByType.develop)
        ELSE IF sortKey = "meeting" THEN num(s.commitsByType.meeting)
        ELSE IF sortKey = "chore" THEN num(s.commitsByType.chore)
        ELSE IF sortKey = "avgScore"
            THEN [isString |-> FALSE, v |-> avgEvaluationDevelop(mine)]
        ELSE IF sortKey = "lines"
            THEN num(developLinesMap(cs, devId).added + developLinesMap(cs, devId).deleted)
        ELSE IF sortKey = "workHours" THEN num(s.totalWorkHours)
        ELSE IF sortKey = "aiMinutes" THEN num(statsAiDrivenMinutesByType(cs, s).develop)
        ELSE IF sortKey = "productivity"
            THEN [isString |-> FALSE,
                  v |-> productivity(s.workHoursByType.develop,
                                     statsAiDrivenMinutesByType(cs, s).develop)]
        ELSE num(0)

sign(n) == IF n < 0 THEN -1 ELSE IF n > 0 THEN 1 ELSE 0

\* the sign of the comparator: localeCompare for two strings, va - vb for two
\* numbers (a NaN difference orders nothing), negated when descending
compare(va, vb, sortDirection) ==
    LET cmp == IF va.isString /\ vb.isString
               THEN sign(localeRank(va.v) - localeRank(vb.v))
               ELSE IF va.v = NaN \/ vb.v = NaN THEN 0
               ELSE sign(va.v[1] * vb.v[2] - vb.v[1] * va.v[2])
    IN  IF sortDirection = "asc" THEN cmp ELSE -cmp

RECURSIVE sortBy(_, _, _, _, _, _)
\* [...stats].sort(comparator): Array.prototype.sort is stable
sortBy(rest, all, table_, cs, tms, links) ==
    IF rest = <<>> THEN <<>>
    ELSE LET init   == sortBy(SubSeq(rest, 1, Len(rest) - 1), all, table_, cs, tms, links)
             x      == rest[Len(rest)]
             val(s) == getVal(s, table_.sortKey, cs, tms, links, all)
             \* x goes after every row that does not order after it
             before == { i \in 1..Len(init) :
                           \A j \in 1..i :
                               compare(val(init[j]), val(x), table_.sortDirection) <= 0 }
             n      == Cardinality(before)
         IN  SubSeq(init, 1, n) \o << x >> \o SubSeq(init, n + 1, Len(init))

\* the sortedStats memo
sortedStats(stats, table_, cs, tms, links) ==
    IF ~Truthy(table_.sortKey) \/ ~Truthy(table_.sortDirection)
    THEN stats
    ELSE sortBy(stats, stats, table_, cs, tms, links)

\* handleSort with two states only: a click on the current column flips the direction
handleSort_toggle(key) ==
    /\ stage = "rendered"
    /\ table' = IF table.sortKey = key
                THEN [table EXCEPT !.sortDirection = IF @ = "asc" THEN "desc" ELSE "asc"]
                ELSE [sortKey |-> key, sortDirection |-> "asc"]
    /\ UNCHANGED <<commits, developers, teams, developerStats, teamStats, stage, db, requests, fetch, picker>>

\* a click on the header of column key
handleSort(key) ==
    /\ stage = "rendered"
    /\ table' = IF table.sortKey = key
                THEN IF table.sortDirection = "asc"
                     THEN [table EXCEPT !.sortDirection = "desc"]
                     ELSE IF table.sortDirection = "desc"
                     THEN [sortKey |-> NULL, sortDirection |-> NULL]
                     ELSE table
                ELSE [sortKey |-> key, sortDirection |-> "asc"]
    /\ UNCHANGED <<commits, developers, teams, developerStats, teamStats, stage, db, requests, fetch, picker>>

MaxSortCommits == 2
SortCommits ==
    { AggCommit(p[1], p[2], v) :
        p \in { <<"d1", "t1">>, <<"d2", "t2">> },
        v \in { x \in AggVariants : x.created_at \in {0, 30} } }

InitSort ==
    /\ commits \in SeqsUpTo(SortCommits, MaxSortCommits)
    /\ developers = HookDevelopers
    /\ teams = HookTeams
    /\ developerStats = <<>>
    /\ teamStats = <<>>
    /\ stage = "fetched"
    /\ db = EmptyDb
    /\ requests = [r \in Requests |-> Idle]
    /\ \E links \in LinkLists :
        fetch = [Mounted EXCEPT !.loading = FALSE, !.developerTeams = links,
                                !.calls = << Call("settled", InitialRange, {}) >>]
    /\ table = Unsorted
    /\ picker = NotCalled

NextSort ==
    \/ Render
    \/ \E i \in 1..Len(SortKeys) : handleSort(SortKeys[i])

SpecSort == InitSort /\ [][NextSort]_vars

\* the rows of the table body
tableRows == sortedStats(developerStats, table, commits, teams, fetch.developerTeams)

\* C26: the sort state is a three-step cycle. sortKey is null exactly when
\* sortDirection is null; a change of the sort state is one of: to (a column,
\* asc) from unsorted or from another column; asc to desc on the same column;
\* desc to unsorted; every click changes the sort state; and when unsorted
\* the rows are shown in the order of stats.
C26_SortCycle ==
    [][ /\ (table.sortKey = NULL) <=> (table.sortDirection = NULL)
        /\ (table'.sortKey = NULL) <=> (table'.sortDirection = NULL)
        /\ table' /= table =>
            \/ /\ table'.sortKey /= NULL
               /\ table'.sortKey /= table.sortKey
               /\ table'.sortDirection = "asc"
            \/ /\ table.sortDirection = "asc"
               /\ table' = [table EXCEPT !.sortDirection = "desc"]
            \/ /\ table.sortDirection = "desc"
               /\ table' = Unsorted
        /\ (stage' = "rendered" /\ table'.sortKey = NULL) => tableRows' = developerStats'
        /\ (stage = "rendered" /\ stage' = "rendered") => table' /= table ]_vars

\* the commits column was clicked twice: the rows are shown by descending
\* commit count, which is not the order of stats
C26_Witness ==
    /\ stage = "rendered"
    /\ table = [sortKey |-> "commits", sortDirection |-> "desc"]
    /\ Len(developerStats) = 2
    /\ tableRows /= developerStats
    /\ tableRows[1].totalCommits > tableRows[2].totalCommits

----------------------------------------------------------------------------
(* DateFilter: the week presets of a month *)

\* the years the component is opened in: FirstYear .. FirstYear + NumYears - 1
FirstYear == 2024
NumYears == 3
Years == FirstYear..(FirstYear + NumYears - 1)
\* Date months are 0..11
Months == 0..11

isLeapYear(year) == (year % 4 = 0 /\ year % 100 /= 0) \/ year % 400 = 0

\* new Date(year, month + 1, 0).getDate()
getLastDayOfMonth(year, month) ==
    IF month = 1 THEN (IF isLeapYear(year) THEN 29 ELSE 28)
    ELSE IF month \in {3, 5, 8, 10} THEN 30
    ELSE 31

RECURSIVE daysBefore(_, _)
\* the days from 1 January FirstYear to the first of (year, month)
daysBefore(year, month) ==
    IF month > 0 THEN daysBefore(year, month - 1) + getLastDayOfMonth(year, month - 1)
    ELSE IF year > FirstYear THEN daysBefore(year - 1, 11) + getLastDayOfMonth(year - 1, 11)
    ELSE 0

\* the getDay of 1 January FirstYear: a Monday
FirstYearStartsOn == 1

\* new Date(year, month, day).getDay(), 0 = Sunday; day may run past the
\* month's last day, as a Date does after setDate
dayOfWeekOf(year, month, day) ==
    (FirstYearStartsOn + daysBefore(year, month) + day - 1) % 7

\* date.getMonth() === month for the date `day` days into (year, month)
inMonth(year, month, day) == day >= 1 /\ day <= getLastDayOfMonth(year, month)

\* the week running to Saturday
daysUntilSunday_saturday(dayOfWeek) == 6 - dayOfWeek

\* const daysUntilSunday = 7 - dayOfWeek
daysUntilSunday(dayOfWeek) == 7 - dayOfWeek

WeekRange(weekNumber, startDate, endDate) ==
    [weekNumber |-> weekNumber, startDate |-> startDate, endDate |-> endDate]

\* useMemo(() => getWeeksOfMonth(now.getFullYear(), now.getMonth()), []): the
\* call is entered; weeks = [], currentDate = the first, weekNumber = 1
CallGetWeeksOfMonth ==
    /\ picker.pc = "notCalled"
    /\ \E year \in Years, month \in Months :
        picker' = [ pc |-> "while", year |-> year, month |-> month, currentDate |-> 1,
                    weekNumber |-> 1, weeks |-> <<>> ]
    /\ UNCHANGED <<commits, developers, teams, developerStats, teamStats, stage, db,
                   requests, fetch, table>>

\* one pass of the while body
WeekLoop ==
    /\ picker.pc = "while"
    /\ inMonth(picker.year, picker.month, picker.currentDate)
    /\ LET weekStart == picker.currentDate
           dayOfWeek == dayOfWeekOf(picker.year, picker.month, picker.currentDate)
           sunday    == IF dayOfWeek = 0 THEN picker.currentDate
                        ELSE picker.currentDate + daysUntilSunday(dayOfWeek)
           weekEnd   == IF ~inMonth(picker.year, picker.month, sunday)
                        THEN getLastDayOfMonth(picker.year, picker.month)
                        ELSE sunday
       IN  picker' = [picker EXCEPT
                        !.weeks = Append(@, WeekRange(picker.weekNumber, weekStart, weekEnd)),
                        !.currentDate = weekEnd + 1,
                        !.weekNumber = @ + 1]
    /\ UNCHANGED <<commits, developers, teams, developerStats, teamStats, stage, db,
                   requests, fetch, table>>

\* the while condition fails: return weeks
ReturnWeeks ==
    /\ picker.pc = "while"
    /\ ~inMonth(picker.year, picker.month, picker.currentDate)
    /\ picker' = [picker EXCEPT !.pc = "returned"]
    /\ UNCHANGED <<commits, developers, teams, developerStats, teamStats, stage, db,
                   requests, fetch, table>>

InitWeeks ==
    /\ commits = <<>> /\ developers = <<>> /\ teams = <<>>
    /\ developerStats = <<>> /\ teamStats = <<>>
    /\ stage = "unmounted"
    /\ db = EmptyDb
    /\ requests = [r \in Requests |-> Idle]
    /\ fetch = Mounted
    /\ table = Unsorted
    /\ picker = NotCalled

NextWeeks ==
    \/ CallGetWeeksOfMonth
    \/ WeekLoop
    \/ ReturnWeeks

\* the call runs on the one JS thread: a step that can be taken is taken
SpecWeeks == InitWeeks /\ [][NextWeeks]_vars /\ WF_vars(NextWeeks)

\* the returned weeks are numbered 1..n and partition the month
weeksPartitionMonth ==
    LET weeks   == picker.weeks
        n       == Len(weeks)
        lastDay == getLastDayOfMonth(picker.year, picker.month)
    IN  /\ n >= 1
        /\ \A i \in 1..n : weeks[i].weekNumber = i
        /\ weeks[1].startDate = 1
        /\ weeks[n].endDate = lastDay
        /\ \A i \in 1..n :
            /\ 1 <= weeks[i].startDate
            /\ weeks[i].startDate <= weeks[i].endDate
            /\ weeks[i].endDate <= lastDay
            /\ \/ dayOfWeekOf(picker.year, picker.month, weeks[i].endDate) = 0
               \/ weeks[i].endDate = lastDay
        /\ \A i \in 1..(n - 1) : weeks[i + 1].startDate = weeks[i].endDate + 1

\* C27: for every year and month a call of getWeeksOfMonth returns, and the
\* weeks it returns are numbered 1..n and partition the month: the first
\* starts on day 1, each ends on a Sunday or on the last day of the month,
\* each next one starts the day after, the last ends on the last day, and
\* every week has startDate <= endDate within the month.
C27_WeeksPartitionMonth ==
    /\ [](picker.pc = "returned" => weeksPartitionMonth)
    /\ (picker.pc = "while" ~> picker.pc = "returned")

\* September 2024 starts on a Sunday: six weeks, the first and the last of one day
C27_Witness ==
    /\ picker.pc = "returned"
    /\ picker.year = 2024 /\ picker.month = 8
    /\ Len(picker.weeks) = 6
    /\ picker.weeks[1].endDate = 1
    /\ picker.weeks[6].startDate = 30

----------------------------------------------------------------------------
(* TeamDetail: the type breakdown beside the team total *)

allAuthored(cs) == \A i \in 1..Len(cs) : cs[i].developer_id /= NULL

\* with a developer on every commit the embedded entries do add up
C28_AuthoredSumToTeamTotal ==
    (stage = "rendered" /\ allAuthored(commits)) =>
        \A k \in 1..Len(teamStats) :
            Sum(Map(teamStats[k].developers, LAMBDA d : d.totalCommits))
                = teamStats[k].totalCommits

----------------------------------------------------------------------------
(* AgentHashStats: the rows of the hash table *)

\* C29: when at least one commit carries an agent_hash, exactly one entry of
\* hashDetails has isNormal true and it is the first, every distinct hash
\* appears exactly once, and the counts of the entries sum to totalCommits,
\* which is normalCount + anomalyCount.
C29_HashDetailsPartition ==
    (stage = "rendered" /\ tagged(commits) /= {}) =>
        LET report  == AgentHashStats(commits)
            details == report.hashDetails
            n       == Len(details)
        IN  /\ n >= 1
            /\ details[1].isNormal
            /\ \A i \in 2..n : ~details[i].isNormal
            /\ \A i \in 1..n, j \in 1..n : details[i].hash = details[j].hash => i = j
            /\ {details[i].hash : i \in 1..n} = {commits[i].agent_hash : i \in tagged(commits)}
            /\ Sum(Map(details, LAMBDA d : d.count)) = report.summary.totalCommits
            /\ report.summary.totalCommits = Cardinality(tagged(commits))
            /\ report.summary.totalCommits
                   = report.summary.normalCount + report.summary.anomalyCount

\* the window with ten commits under A, three under B and two under C: A is
\* listed first although B was seen first
C29_Witness ==
    /\ stage = "rendered"
    /\ commits = ExampleCommits
    /\ LET details == AgentHashStats(commits).hashDetails
       IN  /\ Len(details) = 3
           /\ details[1] = [hash |-> "A", count |-> 10, isNormal |-> TRUE]
           /\ details[2].hash = "B"

----------------------------------------------------------------------------
(* Ingestion: what a request leaves alone *)

\* request r takes a step
stepOf(r) == requests'[r] /= requests[r]

\* the team named by request r exists / the developer it looks up exists
teamMatches(r) == \E t \in db.teams : t.name = requests[r].data.team_name
developerMatches(r) ==
    LET data == requests[r].data
    IN  IF Truthy(data.developer_email)
        THEN \E d \in db.developers : d.email = data.developer_email
        ELSE \E d \in db.developers :
                d.name = data.developer_name /\ d.team_id = requests[r].teamId

\* C30: a request that matches an existing team and an existing developer
\* leaves every team and developer row as it was (name, email and home
\* team_id, whatever team or name the request gives); a request adds at most
\* one developer_teams row, at its upsert, and at most one commits row, at
\* its insert.
C30_MatchedRowsUnchanged ==
    [][ \A r \in Requests : stepOf(r) =>
          LET pc == requests[r].pc
          IN  /\ (pc = "selectTeam" /\ teamMatches(r)) => db' = db
              /\ (pc = "selectDeveloper" /\ developerMatches(r)) => db' = db
              /\ IF pc = "insertTeam" THEN db.teams \subseteq db'.teams
                                      ELSE db'.teams = db.teams
              /\ IF pc = "insertDeveloper" THEN db.developers \subseteq db'.developers
                                           ELSE db'.developers = db.developers
              /\ IF pc = "upsertDeveloperTeam"
                 THEN /\ db.developer_teams \subseteq db'.developer_teams
                      /\ Cardinality(db'.developer_teams \ db.developer_teams) <= 1
                 ELSE db'.developer_teams = db.developer_teams
              /\ IF pc = "insertCommit"
                 THEN /\ db.commits \subseteq db'.commits
                      /\ Cardinality(db'.commits \ db.commits) <= 1
                 ELSE db'.commits = db.commits ]_vars

\* the second request gave the first one's email with another name and
\* another team: the developer row is as the first request wrote it, and the
\* second request added its link and its commit
C30_Witness ==
    /\ requests[1].pc = "done" /\ requests[1].response.success
    /\ requests[2].pc = "done" /\ requests[2].response.success
    /\ requests[1].data.developer_name = "alice" /\ requests[1].data.team_name = "A"
    /\ requests[2].data.developer_name = "al" /\ requests[2].data.team_name = "B"
    /\ requests[1].developerId = requests[2].developerId
    /\ db.developers = {DeveloperRow(requests[1].developerId, "alice", "a@x", requests[1].teamId)}
    /\ Cardinality(db.developer_teams) = 2
    /\ Cardinality(db.commits) = 2

====
